---- MODULE Spec2Model ----
(***************************************************************************)
(* Model of the figura templating engine: Template::validate,             *)
(* Template::with_parser (the delimiter scanner), Lexer::tokenize,        *)
(* DefaultParser::parse, the directives' execute and Template::format.    *)
(*                                                                         *)
(* A string is a sequence of one-character strings.  Cursors are 1-based  *)
(* (the code's are 0-based).  The character '\0' is written NUL.          *)
(***************************************************************************)
EXTENDS Integers, Sequences, FiniteSets, TLC

\* ------------------------------------------------------------------ bounds
MaxLen == 6

MaxFormats == 2

\* ------------------------------------------------------------- characters
BS == "\\"

NUL == "NUL"

NoChar == "NONE"

Digits == <<"0", "1", "2", "3", "4", "5", "6", "7", "8", "9">>

DigitSet == {Digits[i] : i \in 1..10}

LetterSet ==
    {"a", "b", "c", "d", "e", "f", "g", "h", "i", "j", "k", "l", "m",
     "n", "o", "p", "q", "r", "s", "t", "u", "v", "w", "x", "y", "z",
     "A", "B", "C", "D", "E", "F", "G", "H", "I", "J", "K", "L", "M",
     "N", "O", "P", "Q", "R", "S", "T", "U", "V", "W", "X", "Y", "Z"}

WhitespaceSet == {" ", "\t", "\n", "\r"}

IsWhitespace(c) == c \in WhitespaceSet

IsAlpha(c) == c \in LetterSet

IsDigit(c) == c \in DigitSet

DigitVal(c) == (CHOOSE i \in 1..10 : Digits[i] = c) - 1

\* ------------------------------------------------------------------ tokens
\* Token (src/src/lexer.rs:4-48).  val is the payload: the text of an Ident
\* or Literal, the canonical decimal text of an Int or Float (what
\* to_string() prints for the parsed number), the character of an Unknown.
Tok(type, val) == [type |-> type, val |-> val]

NoTok == Tok("None", <<>>)

RECURSIVE StripLeadingZeros(_)
StripLeadingZeros(ds) ==
    IF Len(ds) > 1 /\ ds[1] = "0" THEN StripLeadingZeros(Tail(ds)) ELSE ds

RECURSIVE StripTrailingZeros(_)
StripTrailingZeros(ds) ==
    IF Len(ds) > 0 /\ ds[Len(ds)] = "0"
    THEN StripTrailingZeros(SubSeq(ds, 1, Len(ds) - 1))
    ELSE ds

I64MaxDigits ==
    <<"9", "2", "2", "3", "3", "7", "2", "0", "3", "6", "8", "5", "4", "7", "7",
      "5", "8", "0", "7">>

RECURSIVE DigitsLeq(_, _)
DigitsLeq(a, b) ==
    IF a = <<>> THEN TRUE
    ELSE IF DigitVal(a[1]) < DigitVal(b[1]) THEN TRUE
    ELSE IF DigitVal(a[1]) > DigitVal(b[1]) THEN FALSE
    ELSE DigitsLeq(Tail(a), Tail(b))

\* str::parse::<i64>() of a non-empty digit run: fails on overflow only.
ParseI64Digits(ds) ==
    LET c == StripLeadingZeros(ds) IN
    IF Len(c) < Len(I64MaxDigits) \/ (Len(c) = Len(I64MaxDigits) /\ DigitsLeq(c, I64MaxDigits))
    THEN [ok |-> TRUE, text |-> c]
    ELSE [ok |-> FALSE, text |-> <<>>]

\* str::parse::<f64>() of digits '.' digits followed by f64's Display: the
\* shortest decimal text (exact for the short inputs of the model).
FloatText(ds) ==
    LET dot  == CHOOSE i \in 1..Len(ds) : ds[i] = "."
        ip   == StripLeadingZeros(SubSeq(ds, 1, dot - 1))
        fp   == StripTrailingZeros(SubSeq(ds, dot + 1, Len(ds)))
    IN  IF fp = <<>> THEN ip ELSE ip \o <<".">> \o fp

\* ------------------------------------------------------------------- lexer
CharAt(input, cursor) ==
    IF cursor >= 1 /\ cursor <= Len(input) THEN input[cursor] ELSE NUL

Peek(input, cursor) ==
    IF cursor + 1 <= Len(input) THEN input[cursor + 1] ELSE NoChar

RECURSIVE skip_whitespace(_, _)
skip_whitespace(input, cursor) ==
    IF IsWhitespace(CharAt(input, cursor))
    THEN skip_whitespace(input, cursor + 1)
    ELSE cursor

EscapeChar(e) ==
    CASE e = "n" -> "\n"
      [] e = "t" -> "\t"
      [] e = "r" -> "\r"
      [] e = BS -> BS
      [] e = "\"" -> "\""
      [] e = "0" -> NUL
      [] OTHER -> e

RECURSIVE read_string_loop(_, _, _)
read_string_loop(input, cursor, output) ==
    LET ch == CharAt(input, cursor) IN
    IF ch = "\"" \/ ch = NUL
    THEN [out |-> output, cursor |-> cursor]
    ELSE IF ch = BS
         THEN read_string_loop(input, cursor + 2,
                               Append(output, EscapeChar(CharAt(input, cursor + 1))))
         ELSE read_string_loop(input, cursor + 1, Append(output, ch))

\* A variant of read_string that leaves the cursor on the opening quote.
read_string_stuck(input, cursor) ==
    LET r == read_string_loop(input, cursor + 1, <<>>) IN
    [out |-> r.out, cursor |-> cursor]

\* Skips the opening quote, reads to the closing quote or end of input, then
\* advances once more.
read_string(input, cursor) ==
    LET r == read_string_loop(input, cursor + 1, <<>>) IN
    [out |-> r.out, cursor |-> r.cursor + 1]

\* A variant of read_ident_loop that stops at an underscore.
RECURSIVE read_ident_loop_no_underscore(_, _, _)
read_ident_loop_no_underscore(input, cursor, output) ==
    LET ch == CharAt(input, cursor) IN
    IF IsAlpha(ch) \/ IsDigit(ch)
    THEN read_ident_loop_no_underscore(input, cursor + 1, Append(output, ch))
    ELSE [out |-> output, cursor |-> cursor]

RECURSIVE read_ident_loop(_, _, _)
read_ident_loop(input, cursor, output) ==
    LET ch == CharAt(input, cursor) IN
    IF IsAlpha(ch) \/ IsDigit(ch) \/ ch = "_"
    THEN read_ident_loop(input, cursor + 1, Append(output, ch))
    ELSE [out |-> output, cursor |-> cursor]

read_ident(input, cursor) == read_ident_loop(input, cursor, <<>>)

\* A variant of read_number_loop that takes the first '.' whatever follows.
RECURSIVE read_number_loop_any_dot(_, _, _, _)
read_number_loop_any_dot(input, cursor, output, decimal_point) ==
    LET ch == CharAt(input, cursor) IN
    IF IsDigit(ch) \/ (ch = "." /\ ~decimal_point)
    THEN read_number_loop_any_dot(input, cursor + 1, Append(output, ch),
                                  decimal_point \/ ch = ".")
    ELSE [out |-> output, is_float |-> decimal_point, cursor |-> cursor]

RECURSIVE read_number_loop(_, _, _, _)
read_number_loop(input, cursor, output, decimal_point) ==
    LET ch == CharAt(input, cursor) IN
    IF IsDigit(ch) \/ (ch = "." /\ ~decimal_point /\ IsDigit(Peek(input, cursor)))
    THEN read_number_loop(input, cursor + 1, Append(output, ch),
                          decimal_point \/ ch = ".")
    ELSE [out |-> output, is_float |-> decimal_point, cursor |-> cursor]

read_number(input, cursor) == read_number_loop(input, cursor, <<>>, FALSE)

SingleCharTokens ==
    [c \in {"+", "-", "*", "/", "(", ")", "[", "]", "{", "}", ":", ";", "?", "_"} |->
        CASE c = "+" -> "Plus"   [] c = "-" -> "Minus"  [] c = "*" -> "Star"
          [] c = "/" -> "Slash"  [] c = "(" -> "LParen" [] c = ")" -> "RParen"
          [] c = "[" -> "LSquare" [] c = "]" -> "RSquare"
          [] c = "{" -> "LCurly" [] c = "}" -> "RCurly"
          [] c = ":" -> "Colon"  [] c = ";" -> "Semicolon"
          [] c = "?" -> "Question" [] c = "_" -> "Underscore"]

\* One call of Lexer::next_token from the given cursor: the token (NoTok at
\* end of input) and the cursor after it.
next_token(input, cursor0) ==
    LET cursor == skip_whitespace(input, cursor0)
        ch     == CharAt(input, cursor)
        pk     == Peek(input, cursor)
        one(t)  == [tok |-> Tok(t, <<>>), cursor |-> cursor + 1]
        two(t)  == [tok |-> Tok(t, <<>>), cursor |-> cursor + 2]
    IN
    IF ch = NUL THEN [tok |-> NoTok, cursor |-> cursor]
    ELSE IF ch = "=" THEN
        (IF pk = "=" THEN two("Equal") ELSE IF pk = ">" THEN two("Arrow") ELSE one("Assign"))
    ELSE IF ch \in DOMAIN SingleCharTokens /\ ch # "_" THEN one(SingleCharTokens[ch])
    ELSE IF ch = "!" THEN (IF pk = "=" THEN two("NotEqual") ELSE one("Not"))
    ELSE IF ch = "<" THEN (IF pk = "=" THEN two("LessThanOrEqual") ELSE one("LessThan"))
    ELSE IF ch = ">" THEN (IF pk = "=" THEN two("GreaterThanOrEqual") ELSE one("GreaterThan"))
    ELSE IF ch = "&" THEN
        (IF pk = "&" THEN two("And") ELSE [tok |-> Tok("Unknown", <<"&">>), cursor |-> cursor + 1])
    ELSE IF ch = "|" THEN (IF pk = "|" THEN two("Or") ELSE one("Pipe"))
    ELSE IF ch = "_" THEN one(SingleCharTokens[ch])
    ELSE IF ch = "\"" THEN
        LET r == read_string(input, cursor) IN [tok |-> Tok("Literal", r.out), cursor |-> r.cursor]
    ELSE IF IsAlpha(ch) \/ ch = "_" THEN
        LET r == read_ident(input, cursor) IN [tok |-> Tok("Ident", r.out), cursor |-> r.cursor]
    ELSE IF IsDigit(ch) THEN
        LET r == read_number(input, cursor) IN
        IF r.is_float
        THEN [tok |-> Tok("Float", FloatText(r.out)), cursor |-> r.cursor]
        ELSE LET p == ParseI64Digits(r.out) IN
             [tok |-> IF p.ok THEN Tok("Int", p.text) ELSE Tok("Unknown", <<ch>>),
              cursor |-> r.cursor]
    ELSE [tok |-> Tok("Unknown", <<ch>>), cursor |-> cursor + 1]

RECURSIVE tokenize_from(_, _, _)
tokenize_from(input, cursor, acc) ==
    LET r == next_token(input, cursor) IN
    IF r.tok = NoTok THEN acc ELSE tokenize_from(input, r.cursor, Append(acc, r.tok))

\* Lexer::tokenize: the iterator collected until next_token returns None.
tokenize(input) == tokenize_from(input, 1, <<>>)

\* Token::as_string
as_string(t) ==
    CASE t.type \in {"Ident", "Literal", "Int", "Float"} -> t.val
      [] t.type = "Colon" -> <<":">>
      [] t.type = "Question" -> <<"?">>
      [] t.type = "Pipe" -> <<"|">>
      [] t.type = "Arrow" -> <<"=", ">">>
      [] OTHER -> <<>>

\* ------------------------------------------------------------------ values
\* Value (src/src/lib.rs:18-35): String, Str, Int, Float, Bool.  A Float is
\* held as its sign, whole part and canonical fraction digits.
StrVal(s) == [t |-> "Str", v |-> s]

StringVal(s) == [t |-> "String", v |-> s]

IntVal(i) == [t |-> "Int", v |-> i]

BoolVal(b) == [t |-> "Bool", v |-> b]

FloatVal(neg, whole, frac) == [t |-> "Float", v |-> [neg |-> neg, whole |-> whole, frac |-> frac]]

RECURSIVE NatToString(_)
NatToString(n) ==
    IF n < 10 THEN <<Digits[n + 1]>>
    ELSE NatToString(n \div 10) \o <<Digits[(n % 10) + 1]>>

IntToString(i) == IF i < 0 THEN <<"-">> \o NatToString(0 - i) ELSE NatToString(i)

\* impl fmt::Display for Value
ValueToString(val) ==
    CASE val.t \in {"Str", "String"} -> val.v
      [] val.t = "Int" -> IntToString(val.v)
      [] val.t = "Bool" -> (IF val.v THEN <<"t", "r", "u", "e">> ELSE <<"f", "a", "l", "s", "e">>)
      [] val.t = "Float" ->
            (IF val.v.neg THEN <<"-">> ELSE <<>>) \o NatToString(val.v.whole)
            \o (IF val.v.frac = <<>> THEN <<>> ELSE <<".">> \o val.v.frac)

\* Context = HashMap<&'static str, Value>: a function from names to values.
CtxHas(ctx, key) == key \in DOMAIN ctx

\* ------------------------------------------------------------- directives
Ok(v) == [ok |-> TRUE, val |-> v]

Err(e) == [ok |-> FALSE, err |-> e]

MissingDelimiter(c) == [kind |-> "MissingDelimiter", ch |-> c]

DirectiveParsing(msg) == [kind |-> "DirectiveParsing", msg |-> msg]

DirectiveExecution(msg, name) == [kind |-> "DirectiveExecution", msg |-> msg, name |-> name]

NoDirective == [kind |-> "NoDirective"]

ReplaceDirective(name) == [kind |-> "Replace", name |-> name]

RepeatDirective(pattern, count) == [kind |-> "Repeat", pattern |-> pattern, count |-> count]

ConditionalDirective(c, t, e) ==
    [kind |-> "Conditional", condition |-> c, then_value |-> t, else_value |-> e]

SwitchDirective(value, cases, default) ==
    [kind |-> "Switch", value |-> value, cases |-> cases, default |-> default]

None == [some |-> FALSE]

Some(v) == [some |-> TRUE, val |-> v]

\* ------------------------------------------------------------------ parser
is_value_token(t) == t.type \in {"Ident", "Literal", "Int", "Float"}

TokType(tokens, i) == IF i <= Len(tokens) THEN tokens[i].type ELSE "None"

\* The while loop of DefaultParser::parse_switch, from token index i.
RECURSIVE parse_switch_loop(_, _, _, _, _)
parse_switch_loop(tokens, i, value, cases, default) ==
    IF i > Len(tokens) THEN Ok(SwitchDirective(value, cases, default))
    ELSE IF tokens[i].type # "Pipe"
    THEN Err(DirectiveParsing("Expected '|' in switch directive"))
    ELSE IF TokType(tokens, i + 1) = "Underscore"
    THEN IF TokType(tokens, i + 2) # "Arrow"
         THEN Err(DirectiveParsing("Expected '=>' after '_' in switch"))
         ELSE IF i + 3 <= Len(tokens) /\ is_value_token(tokens[i + 3])
         THEN parse_switch_loop(tokens, i + 4, value, cases, Some(as_string(tokens[i + 3])))
         ELSE Err(DirectiveParsing("Expected value after '=>' in default case"))
    ELSE IF i + 1 <= Len(tokens) /\ is_value_token(tokens[i + 1])
    THEN IF TokType(tokens, i + 2) # "Arrow"
         THEN Err(DirectiveParsing("Expected '=>' after case pattern"))
         ELSE IF i + 3 <= Len(tokens) /\ is_value_token(tokens[i + 3])
         THEN parse_switch_loop(tokens, i + 4, value,
                                Append(cases, <<as_string(tokens[i + 1]), as_string(tokens[i + 3])>>),
                                default)
         ELSE Err(DirectiveParsing("Expected value after '=>'"))
    ELSE Err(DirectiveParsing("Expected case pattern or '_' after '|'"))

parse_switch(tokens) ==
    IF Len(tokens) >= 1 /\ is_value_token(tokens[1])
    THEN parse_switch_loop(tokens, 2, as_string(tokens[1]), <<>>, None)
    ELSE Err(DirectiveParsing("Switch directive must start with a value"))

\* A variant of parse whose last arm yields a directive with no output.
parse_permissive(input) ==
    IF input = <<>> THEN Ok(NoDirective)
    ELSE IF Len(input) = 1 /\ input[1].type = "Ident"
    THEN Ok(ReplaceDirective(input[1].val))
    ELSE IF Len(input) = 3 /\ input[2].type = "Colon"
            /\ is_value_token(input[1]) /\ is_value_token(input[3])
    THEN Ok(RepeatDirective(as_string(input[1]), as_string(input[3])))
    ELSE IF Len(input) = 5 /\ input[2].type = "Question" /\ input[4].type = "Colon"
            /\ is_value_token(input[1]) /\ is_value_token(input[3]) /\ is_value_token(input[5])
    THEN Ok(ConditionalDirective(as_string(input[1]), as_string(input[3]), as_string(input[5])))
    ELSE IF Len(input) >= 4 /\ \E i \in 1..Len(input) : input[i].type = "Pipe"
    THEN parse_switch(input)
    ELSE Ok(NoDirective)

\* DefaultParser::parse (the strict parser of parser.rs).
parse(input) ==
    IF input = <<>> THEN Ok(NoDirective)
    ELSE IF Len(input) = 1 /\ input[1].type = "Ident"
    THEN Ok(ReplaceDirective(input[1].val))
    ELSE IF Len(input) = 3 /\ input[2].type = "Colon"
            /\ is_value_token(input[1]) /\ is_value_token(input[3])
    THEN Ok(RepeatDirective(as_string(input[1]), as_string(input[3])))
    ELSE IF Len(input) = 5 /\ input[2].type = "Question" /\ input[4].type = "Colon"
            /\ is_value_token(input[1]) /\ is_value_token(input[3]) /\ is_value_token(input[5])
    THEN Ok(ConditionalDirective(as_string(input[1]), as_string(input[3]), as_string(input[5])))
    ELSE IF Len(input) >= 4 /\ \E i \in 1..Len(input) : input[i].type = "Pipe"
    THEN parse_switch(input)
    ELSE Err(DirectiveParsing("Unhandled token pattern"))

\* --------------------------------------------------------------- execution
\* str::parse::<usize>(): an optional '+' followed by at least one digit.
RECURSIVE DigitsToNat(_, _)
DigitsToNat(ds, acc) ==
    IF ds = <<>> THEN acc ELSE DigitsToNat(Tail(ds), acc * 10 + DigitVal(ds[1]))

ParseUsize(s) ==
    LET ds == IF Len(s) > 0 /\ s[1] = "+" THEN Tail(s) ELSE s IN
    IF ds # <<>> /\ \A i \in 1..Len(ds) : IsDigit(ds[i])
    THEN [ok |-> TRUE, val |-> DigitsToNat(ds, 0)]
    ELSE [ok |-> FALSE, val |-> 0]

\* A variant of str_repeat that writes the pattern at most once.
str_repeat_once(pattern, n) == IF n = 0 THEN <<>> ELSE pattern

RECURSIVE str_repeat(_, _)
str_repeat(pattern, n) == IF n = 0 THEN <<>> ELSE pattern \o str_repeat(pattern, n - 1)

\* A variant of is_truthy for which every string is truthy.
is_truthy_any_string(value) ==
    CASE value.t \in {"Str", "String"} -> TRUE
      [] value.t = "Int" -> value.v # 0
      [] value.t = "Float" -> value.v.whole # 0 \/ value.v.frac # <<>>
      [] value.t = "Bool" -> value.v

is_truthy(value) ==
    CASE value.t \in {"Str", "String"} -> value.v # <<>>
      [] value.t = "Int" -> value.v # 0
      [] value.t = "Float" -> value.v.whole # 0 \/ value.v.frac # <<>>
      [] value.t = "Bool" -> value.v

resolve_value(key, ctx) == IF CtxHas(ctx, key) THEN ValueToString(ctx[key]) ELSE key

\* A variant of NoDirective's execute that leaves a mark in the output.
NoDirective_execute_noisy(ctx) == Ok(<<"?">>)

NoDirective_execute(ctx) == Ok(<<>>)

\* A variant of ReplaceDirective::execute that renders a missing variable
\* as the empty string.
ReplaceDirective_execute_lenient(dir, ctx) ==
    IF CtxHas(ctx, dir.name) THEN Ok(ValueToString(ctx[dir.name])) ELSE Ok(<<>>)

ReplaceDirective_execute(dir, ctx) ==
    IF CtxHas(ctx, dir.name)
    THEN Ok(ValueToString(ctx[dir.name]))
    ELSE Err(DirectiveExecution("Trying to use value which doesn't exist in the context", dir.name))

RepeatDirective_execute(dir, ctx) ==
    LET pattern == IF CtxHas(ctx, dir.pattern) THEN ValueToString(ctx[dir.pattern]) ELSE dir.pattern
        parsed  == ParseUsize(dir.count)
    IN
    IF CtxHas(ctx, dir.count)
    THEN IF ctx[dir.count].t = "Int" /\ ctx[dir.count].v >= 0
         THEN Ok(str_repeat(pattern, ctx[dir.count].v))
         ELSE Err(DirectiveExecution("The value assigned must be a non-negative integer", dir.count))
    ELSE IF parsed.ok
         THEN Ok(str_repeat(pattern, parsed.val))
         ELSE Err(DirectiveExecution("Trying to repeat with a non-integer value", dir.pattern))

ConditionalDirective_execute(dir, ctx) ==
    LET condition_met == IF CtxHas(ctx, dir.condition) THEN is_truthy(ctx[dir.condition]) ELSE FALSE IN
    Ok(resolve_value(IF condition_met THEN dir.then_value ELSE dir.else_value, ctx))

\* A variant of switch_cases that takes the last matching case.
switch_cases_last(dir, i, value, ctx) ==
    LET ms == {j \in i..Len(dir.cases) : value = resolve_value(dir.cases[j][1], ctx)} IN
    IF ms # {}
    THEN Ok(resolve_value(dir.cases[CHOOSE j \in ms : \A k \in ms : k <= j][2], ctx))
    ELSE IF dir.default.some
         THEN Ok(resolve_value(dir.default.val, ctx))
         ELSE Err(DirectiveExecution("No matching case for value in switch directive", value))

RECURSIVE switch_cases(_, _, _, _)
switch_cases(dir, i, value, ctx) ==
    IF i > Len(dir.cases)
    THEN IF dir.default.some
         THEN Ok(resolve_value(dir.default.val, ctx))
         ELSE Err(DirectiveExecution("No matching case for value in switch directive", value))
    ELSE IF value = resolve_value(dir.cases[i][1], ctx)
         THEN Ok(resolve_value(dir.cases[i][2], ctx))
         ELSE switch_cases(dir, i + 1, value, ctx)

SwitchDirective_execute(dir, ctx) == switch_cases(dir, 1, resolve_value(dir.value, ctx), ctx)

\* Directive::execute, dispatched on the directive's type.
execute(dir, ctx) ==
    CASE dir.kind = "NoDirective" -> NoDirective_execute(ctx)
      [] dir.kind = "Replace" -> ReplaceDirective_execute(dir, ctx)
      [] dir.kind = "Repeat" -> RepeatDirective_execute(dir, ctx)
      [] dir.kind = "Conditional" -> ConditionalDirective_execute(dir, ctx)
      [] dir.kind = "Switch" -> SwitchDirective_execute(dir, ctx)

\* Part (src/src/lib.rs:56-59)
Text(str) == [tag |-> "Text", str |-> str]

Directive(dir) == [tag |-> "Directive", dir |-> dir]

\* A variant of format_loop that remembers the first error and keeps going.
RECURSIVE format_loop_keeps_going(_, _, _, _, _)
format_loop_keeps_going(ps, i, ctx, output, ran) ==
    IF i > Len(ps) THEN [res |-> Ok(output), ran |-> ran]
    ELSE IF ps[i].tag = "Text"
    THEN format_loop_keeps_going(ps, i + 1, ctx, output \o ps[i].str, ran)
    ELSE LET v == execute(ps[i].dir, ctx)
             rest == format_loop_keeps_going(ps, i + 1, ctx,
                                             IF v.ok THEN output \o v.val ELSE output,
                                             Append(ran, i))
         IN  IF v.ok THEN rest ELSE [res |-> Err(v.err), ran |-> rest.ran]

\* The for loop of Template::format over the taken parts, from part i with
\* the output accumulated so far; ran lists the indices of the directives
\* whose execute was called.
RECURSIVE format_loop(_, _, _, _, _)
format_loop(ps, i, ctx, output, ran) ==
    IF i > Len(ps) THEN [res |-> Ok(output), ran |-> ran]
    ELSE IF ps[i].tag = "Text"
    THEN format_loop(ps, i + 1, ctx, output \o ps[i].str, ran)
    ELSE LET v == execute(ps[i].dir, ctx) IN
         IF v.ok
         THEN format_loop(ps, i + 1, ctx, output \o v.val, Append(ran, i))
         ELSE [res |-> Err(v.err), ran |-> Append(ran, i)]

\* ---------------------------------------------------------------- scanner
\* One iteration of a `while let Some(ch) = chars.next()` loop consumes the
\* character at pos, and one more when the arm calls chars.next() again.
Advance(input, pos, k) == IF pos + k > Len(input) + 1 THEN Len(input) + 1 ELSE pos + k

\* One iteration of the loop of Template::validate on v = [pos, inside,
\* depth, returned]; returned is set by the early `return depth`.
validate_step(v, input, O, C) ==
    LET ch == input[v.pos] IN
    IF O = C
    THEN IF ch = BS THEN [v EXCEPT !.pos = Advance(input, v.pos, 2)]
         ELSE IF ch = O
         THEN [v EXCEPT !.pos = Advance(input, v.pos, 1), !.inside = ~v.inside]
         ELSE [v EXCEPT !.pos = Advance(input, v.pos, 1)]
    ELSE LET d == IF ch = BS THEN v.depth
                  ELSE IF ch = O THEN v.depth + 1
                  ELSE IF ch = C THEN v.depth - 1
                  ELSE v.depth
         IN  [v EXCEPT !.pos = Advance(input, v.pos, IF ch = BS THEN 2 ELSE 1),
                       !.depth = d,
                       !.returned = d < 0]

\* The value Template::validate returns once its loop has ended.
validate_result(v, O, C) ==
    IF O = C THEN (IF v.inside THEN 1 ELSE 0) ELSE v.depth

\* Variants of balance_error with a slip in the match: the negative arm
\* left out, the two delimiters exchanged, the check left out.
balance_error_no_negative(d, O, C) ==
    IF d > 0 THEN Some(MissingDelimiter(C)) ELSE None

balance_error_swapped(d, O, C) ==
    IF d > 0 THEN Some(MissingDelimiter(O))
    ELSE IF d < 0 THEN Some(MissingDelimiter(C))
    ELSE None

balance_error_never(d, O, C) == None

\* The match on the balance at the top of Template::with_parser.
balance_error(d, O, C) ==
    IF d > 0 THEN Some(MissingDelimiter(C))
    ELSE IF d < 0 THEN Some(MissingDelimiter(O))
    ELSE None

\* Lexer::tokenize followed by P::parse on a closed directive body.
parse_body(st) ==
    LET dir == parse(tokenize(st.directive_content)) IN
    IF dir.ok
    THEN [st EXCEPT !.parts = Append(st.parts, Directive(dir.val)),
                    !.directive_content = <<>>,
                    !.bodies = Append(st.bodies, st.directive_content)]
    ELSE [st EXCEPT !.err = Some(dir.err),
                    !.bodies = Append(st.bodies, st.directive_content)]

\* A variant of flush_text that pushes the text run even when it is empty.
flush_text_always(st) ==
    [st EXCEPT !.parts = Append(st.parts, Text(st.text)), !.text = <<>>]

flush_text(st) ==
    IF st.text # <<>>
    THEN [st EXCEPT !.parts = Append(st.parts, Text(st.text)), !.text = <<>>]
    ELSE st

\* A variant of scan_escape that does not consume the escaped character.
scan_escape_no_skip(st, input) ==
    IF st.depth = 0
    THEN [st EXCEPT !.text = Append(st.text, BS), !.pos = st.pos + 1]
    ELSE [st EXCEPT !.directive_content = Append(st.directive_content, BS),
                    !.pos = st.pos + 1]

\* The '\\' arm of the main scan.
scan_escape(st, input) ==
    IF st.pos + 1 <= Len(input)
    THEN LET next == input[st.pos + 1] IN
         IF st.depth = 0
         THEN [st EXCEPT !.text = Append(st.text, next), !.pos = st.pos + 2]
         ELSE [st EXCEPT !.directive_content = Append(st.directive_content, next),
                         !.pos = st.pos + 2]
    ELSE [st EXCEPT !.pos = st.pos + 1]

\* A variant of scan_open that takes a nested opening delimiter for plain
\* body content and does not count it.
scan_open_flat(st, O, C) ==
    LET s1 == [st EXCEPT !.pos = st.pos + 1] IN
    IF O = C
    THEN IF st.depth = 0
         THEN [flush_text(s1) EXCEPT !.depth = 1]
         ELSE LET r == parse_body(s1) IN
              IF r.err.some THEN r ELSE [r EXCEPT !.depth = 0]
    ELSE IF st.depth = 0
         THEN [flush_text(s1) EXCEPT !.depth = st.depth + 1]
         ELSE [s1 EXCEPT !.directive_content = Append(st.directive_content, O)]

\* The `c if c == O` arm.
scan_open(st, O, C) ==
    LET s1 == [st EXCEPT !.pos = st.pos + 1] IN
    IF O = C
    THEN IF st.depth = 0
         THEN [flush_text(s1) EXCEPT !.depth = 1]
         ELSE LET r == parse_body(s1) IN
              IF r.err.some THEN r ELSE [r EXCEPT !.depth = 0]
    ELSE IF st.depth = 0
         THEN [flush_text(s1) EXCEPT !.depth = st.depth + 1]
         ELSE [s1 EXCEPT !.directive_content = Append(st.directive_content, O),
                         !.depth = st.depth + 1]

\* The `c if c == C` arm (reached only when O # C).
scan_close(st, C) ==
    LET s1 == [st EXCEPT !.pos = st.pos + 1, !.depth = st.depth - 1] IN
    IF s1.depth = 0
    THEN parse_body(s1)
    ELSE [s1 EXCEPT !.directive_content = Append(st.directive_content, C)]

\* The catch-all arm.
scan_other(st, c) ==
    IF st.depth = 0
    THEN [st EXCEPT !.text = Append(st.text, c), !.pos = st.pos + 1]
    ELSE [st EXCEPT !.directive_content = Append(st.directive_content, c), !.pos = st.pos + 1]

\* One iteration of the main loop of Template::with_parser on
\* st = [pos, depth, text, directive_content, parts, bodies, err].
scan_step(st, input, O, C) ==
    LET ch == input[st.pos] IN
    IF ch = BS THEN scan_escape(st, input)
    ELSE IF ch = O THEN scan_open(st, O, C)
    ELSE IF ch = C THEN scan_close(st, C)
    ELSE scan_other(st, ch)

\* ------------------------------------------------------------ state machine
VARIABLES
    delims,             \* <<O, C>>, the const generics of Template<O, C>
    src,                \* the input of Template::parse
    pc,                 \* "validate", "match", "scan", "compiled" or "failed"
    vpos,               \* validate: the next character of its iterator
    inside,             \* validate: `inside` (O = C)
    vdepth,             \* validate: `depth` (O # C)
    balance,            \* with_parser: `let depth = Self::validate(input)`
    pos,                \* with_parser: the next character of the main scan
    depth,              \* with_parser: `depth` of the main scan
    text,               \* with_parser: `text`
    directive_content,  \* with_parser: `directive_content`
    parts,              \* with_parser's `parts`, then Template::parts
    bodies,             \* the bodies handed to Lexer::tokenize and P::parse so far
    compileResult,      \* what with_parser returned
    formatCalls,        \* number of format calls made on the Template
    lastCtx,            \* the context of the latest format call
    lastResult,         \* what the latest format call returned
    executed,           \* indices of the directives that call executed
    lex,                \* a Lexer [input, cursor] with the tokens it produced so far
    evalCall,           \* the receiver and context of an Expression::evaluate call
    evalResult,         \* what that call returned
    parseCall,          \* the tokens and content handed to the permissive parser
    parseResult         \* what that parser returned

vars == <<delims, src, pc, vpos, inside, vdepth, balance, pos, depth, text,
          directive_content, parts, bodies, compileResult, formatCalls, lastCtx,
          lastResult, executed, lex, evalCall, evalResult, parseCall, parseResult>>

templateVars == <<delims, src, pc, vpos, inside, vdepth, balance, pos, depth, text,
                  directive_content, parts, bodies, compileResult, formatCalls,
                  lastCtx, lastResult, executed>>

lexerVars == <<lex>>

evalVars == <<evalCall, evalResult>>

parserVars == <<parseCall, parseResult>>

validateVars == <<vpos, inside, vdepth, balance>>

scanVars == <<pos, depth, text, directive_content, parts, bodies>>

formatVars == <<formatCalls, lastCtx, lastResult, executed>>

O == delims[1]

C == delims[2]

Delims == {<<"{", "}">>, <<"$", "$">>}

\* Sources are written with the two delimiters, the backslash, a letter and
\* a blank.
AlphabetOf(d) == {d[1], d[2], BS, "a", " "}

SourcesOf(d) == UNION {[1..n -> AlphabetOf(d)] : n \in 0..MaxLen}

CtxNames == {<<"a">>, <<"a", "a">>}

CtxValues == {StrVal(<<"b">>), IntVal(-12)}

Contexts == UNION {[S -> CtxValues] : S \in SUBSET CtxNames}

EmptyCtx == CHOOSE f \in Contexts : DOMAIN f = {}

NotReturned == Err([kind |-> "NotReturned"])

\* No Lexer has been constructed.
NoLexer == [input |-> <<>>, cursor |-> 1, tokens |-> <<>>, done |-> TRUE]

\* No Expression is being evaluated.
NoCall == [kind |-> "NoCall"]

\* Template::parse(s) is entered for Template<d[1], d[2]>.
TemplateStart(d, s) ==
    /\ delims = d
    /\ src = s
    /\ pc = "validate"
    /\ vpos = 1
    /\ inside = FALSE
    /\ vdepth = 0
    /\ balance = 0
    /\ pos = 1
    /\ depth = 0
    /\ text = <<>>
    /\ directive_content = <<>>
    /\ parts = <<>>
    /\ bodies = <<>>
    /\ compileResult = NotReturned
    /\ formatCalls = 0
    /\ lastCtx = EmptyCtx
    /\ lastResult = NotReturned
    /\ executed = <<>>

Init ==
    /\ \E d \in Delims : \E s \in SourcesOf(d) : TemplateStart(d, s)
    /\ lex = NoLexer
    /\ evalCall = NoCall
    /\ evalResult = NotReturned
    /\ parseCall = NoCall
    /\ parseResult = NotReturned

\* Template::validate, one loop iteration.
ValidateStep ==
    /\ pc = "validate"
    /\ vpos <= Len(src)
    /\ LET v == validate_step([pos |-> vpos, inside |-> inside, depth |-> vdepth,
                               returned |-> FALSE], src, O, C)
       IN  /\ vpos' = v.pos
           /\ inside' = v.inside
           /\ vdepth' = v.depth
           /\ IF v.returned
              THEN balance' = v.depth /\ pc' = "match"
              ELSE UNCHANGED <<balance, pc>>
    /\ UNCHANGED <<lexerVars, evalVars, parserVars, delims, src, scanVars, compileResult, formatVars>>

\* Template::validate, the return after the loop.
ValidateEnd ==
    /\ pc = "validate"
    /\ vpos > Len(src)
    /\ balance' = validate_result([inside |-> inside, depth |-> vdepth], O, C)
    /\ pc' = "match"
    /\ UNCHANGED <<lexerVars, evalVars, parserVars, delims, src, vpos, inside, vdepth, scanVars, compileResult, formatVars>>

\* Template::with_parser, the match on validate's result.
CheckBalance ==
    /\ pc = "match"
    /\ LET e == balance_error(balance, O, C) IN
       IF e.some
       THEN compileResult' = Err(e.val) /\ pc' = "failed"
       ELSE compileResult' = compileResult /\ pc' = "scan"
    /\ UNCHANGED <<lexerVars, evalVars, parserVars, delims, src, validateVars, scanVars, formatVars>>

\* The locals of with_parser after an iteration that left them as st; the
\* `?` on P::parse returns the error.
ScanTo(st) ==
    /\ pos' = st.pos
    /\ depth' = st.depth
    /\ text' = st.text
    /\ directive_content' = st.directive_content
    /\ parts' = st.parts
    /\ bodies' = st.bodies
    /\ IF st.err.some
       THEN compileResult' = Err(st.err.val) /\ pc' = "failed"
       ELSE UNCHANGED <<compileResult, pc>>

\* Template::with_parser, one iteration of the main loop.
ScanStep ==
    /\ pc = "scan"
    /\ pos <= Len(src)
    /\ ScanTo(scan_step([pos |-> pos, depth |-> depth, text |-> text,
                         directive_content |-> directive_content, parts |-> parts,
                         bodies |-> bodies, err |-> None], src, O, C))
    /\ UNCHANGED <<lexerVars, evalVars, parserVars, delims, src, validateVars, formatVars>>

\* Template::with_parser, after the main loop: the last text run is pushed
\* and the Template is returned.
ScanEnd ==
    /\ pc = "scan"
    /\ pos > Len(src)
    /\ LET st == flush_text([text |-> text, parts |-> parts]) IN
       /\ parts' = st.parts
       /\ text' = st.text
       /\ compileResult' = Ok(st.parts)
    /\ pc' = "compiled"
    /\ UNCHANGED <<lexerVars, evalVars, parserVars, delims, src, validateVars, pos, depth, directive_content, bodies, formatVars>>

\* Template::format: the parts are taken out of the Template
\* (std::mem::take) and iterated.
Format(ctx) ==
    /\ pc = "compiled"
    /\ formatCalls < MaxFormats
    /\ LET r == format_loop(parts, 1, ctx, <<>>, <<>>) IN
       /\ lastResult' = r.res
       /\ executed' = r.ran
    /\ parts' = <<>>
    /\ lastCtx' = ctx
    /\ formatCalls' = formatCalls + 1
    /\ UNCHANGED <<lexerVars, evalVars, parserVars, delims, src, pc, validateVars, pos, depth, text, directive_content,
                   bodies, compileResult>>

Next ==
    \/ ValidateStep
    \/ ValidateEnd
    \/ CheckBalance
    \/ ScanStep
    \/ ScanEnd
    \/ \E ctx \in Contexts : Format(ctx)

Spec == Init /\ [][Next]_vars

\* ------------------------------------------------------------------ claims
Returned == pc \in {"compiled", "failed"}

\* What the first format call on a freshly compiled Template returns.
FreshFormat(ctx) == format_loop(compileResult.val, 1, ctx, <<>>, <<>>).res

\* C1: every format call on a compiled Template returns what the first
\* format call on a freshly compiled Template of the same source returns
\* for that call's context.
C1_FormatIsRepeatable ==
    (pc = "compiled" /\ formatCalls >= 1) => lastResult = FreshFormat(lastCtx)

\* C2: format leaves the Template's part sequence as compile built it,
\* whether it returns Ok or Err.
C2_FormatKeepsParts ==
    pc = "compiled" => parts = compileResult.val

\* C3 (as stated): compile returns Ok if and only if validate returns 0.
C3_OkIffBalanced ==
    Returned => (compileResult.ok <=> balance = 0)

AllBodiesParse == \A i \in 1..Len(bodies) : parse(tokenize(bodies[i])).ok

\* C3 (amended): compile returns MissingDelimiter if and only if validate
\* returns a nonzero value; when validate returns 0, compile returns Ok if
\* and only if the parser accepts every top-level directive body, and
\* DirectiveParsing otherwise.
C3_OkIffBalancedAndParsable ==
    Returned =>
        /\ compileResult.ok <=> (balance = 0 /\ AllBodiesParse)
        /\ (~compileResult.ok /\ compileResult.err.kind = "MissingDelimiter") <=> balance # 0
        /\ (~compileResult.ok /\ balance = 0) => compileResult.err.kind = "DirectiveParsing"

C3_Witness ==
    /\ pc = "failed"
    /\ balance = 0
    /\ compileResult.err.kind = "DirectiveParsing"
    /\ Len(bodies) = 2

\* C4: a nonzero balance surfaces as MissingDelimiter carrying the close
\* delimiter when the final depth is positive and the open delimiter when
\* the depth went negative.
C4_OffendingDelimiter ==
    /\ (Returned /\ balance > 0) => compileResult = Err(MissingDelimiter(C))
    /\ (Returned /\ balance < 0) => compileResult = Err(MissingDelimiter(O))
    /\ (Returned /\ src = <<"{", "a">>) => compileResult = Err(MissingDelimiter("}"))
    /\ (Returned /\ src = <<"a", "}">>) => compileResult = Err(MissingDelimiter("{"))

C4_Witness ==
    /\ pc = "failed"
    /\ O # C
    /\ balance < 0
    /\ compileResult = Err(MissingDelimiter("{"))
    /\ vpos <= Len(src)

\* A source made only of doubled delimiters and ordinary characters, and
\* the same source with every doubled delimiter collapsed to one character.
RECURSIVE DoubledOnly(_, _, _)
DoubledOnly(s, o, c) ==
    IF s = <<>> THEN TRUE
    ELSE IF s[1] = BS THEN FALSE
    ELSE IF s[1] \in {o, c}
    THEN Len(s) >= 2 /\ s[2] = s[1] /\ DoubledOnly(SubSeq(s, 3, Len(s)), o, c)
    ELSE DoubledOnly(Tail(s), o, c)

RECURSIVE Collapse(_, _, _)
Collapse(s, o, c) ==
    IF s = <<>> THEN <<>>
    ELSE IF s[1] \in {o, c}
    THEN <<s[1]>> \o Collapse(SubSeq(s, 3, Len(s)), o, c)
    ELSE <<s[1]>> \o Collapse(Tail(s), o, c)

\* C5: with distinct delimiters, a source made only of doubled delimiters
\* and ordinary text compiles, and format with an empty context returns the
\* source with each doubled delimiter collapsed to one character.
C5_DoubledDelimiterIsLiteral ==
    (Returned /\ O # C /\ DoubledOnly(src, O, C)) =>
        /\ compileResult.ok
        /\ FreshFormat(EmptyCtx) = Ok(Collapse(src, O, C))

\* C6: with identical delimiters, a doubled delimiter is emitted as one
\* literal delimiter character and does not toggle inside/outside, so a
\* source made only of doubled delimiters and ordinary text compiles to its
\* collapsed text and to no directive.
C6_DoubledSameDelimiterIsLiteral ==
    (Returned /\ O = C /\ DoubledOnly(src, O, C)) =>
        /\ compileResult.ok
        /\ bodies = <<>>
        /\ compileResult.val =
              (IF src = <<>> THEN <<>> ELSE <<Text(Collapse(src, O, C))>>)

\* C7: a backslash outside a directive body escapes the next character: it
\* is appended to the text as it is, and neither the main scan nor the
\* balance pass changes its depth or state for it.
C7_BackslashEscapes ==
    [][ /\ (pc = "scan" /\ pos < Len(src) /\ src[pos] = BS /\ depth = 0) =>
            /\ text' = Append(text, src[pos + 1])
            /\ pos' = pos + 2
            /\ depth' = 0
            /\ parts' = parts
            /\ directive_content' = directive_content
            /\ bodies' = bodies
            /\ pc' = "scan"
        /\ (pc = "validate" /\ vpos <= Len(src) /\ src[vpos] = BS) =>
            /\ vdepth' = vdepth
            /\ inside' = inside
            /\ vpos' = (IF vpos < Len(src) THEN vpos + 2 ELSE vpos + 1)
            /\ pc' = "validate"
      ]_vars

C7_Witness ==
    /\ pc = "scan"
    /\ O # C
    /\ pos = 5
    /\ SubSeq(src, 1, 4) = <<BS, "}", BS, "{">>
    /\ text = <<"}", "{">>
    /\ depth = 0
    /\ parts = <<>>

\* C8: the balance pass ends before any directive body is lexed or parsed,
\* and a source whose balance is nonzero fails with MissingDelimiter
\* without the parser having been called.
C8_BalanceBeforeParsing ==
    /\ pc \in {"validate", "match"} => bodies = <<>>
    /\ (Returned /\ balance # 0) =>
          /\ bodies = <<>>
          /\ ~compileResult.ok
          /\ compileResult.err.kind = "MissingDelimiter"

C8_Witness ==
    /\ pc = "failed"
    /\ src = <<"{", "a", " ", "a", "}", "{">>
    /\ ~parse(tokenize(<<"a", " ", "a">>)).ok
    /\ compileResult = Err(MissingDelimiter("}"))
    /\ bodies = <<>>

FailingParts(ps, ctx) ==
    {i \in 1..Len(ps) : ps[i].tag = "Directive" /\ ~execute(ps[i].dir, ctx).ok}

FirstOf(S) == CHOOSE i \in S : \A j \in S : i <= j

\* C9: format executes the parts in compiled order and returns the error
\* of the first directive that fails, with no output; no later directive
\* is executed.
C9_FailFast ==
    [][ (pc = "compiled" /\ formatCalls' = formatCalls + 1) =>
            LET failing == FailingParts(parts, lastCtx') IN
            /\ lastResult'.ok <=> failing = {}
            /\ \A k \in 1..Len(executed') : k > 1 => executed'[k - 1] < executed'[k]
            /\ failing # {} =>
                /\ lastResult'.err = execute(parts[FirstOf(failing)].dir, lastCtx').err
                /\ DOMAIN lastResult' = {"ok", "err"}
                /\ {executed'[k] : k \in 1..Len(executed')} =
                      {i \in 1..FirstOf(failing) : parts[i].tag = "Directive"}
      ]_vars

C9_Witness ==
    /\ formatCalls = 1
    /\ ~lastResult.ok
    /\ Len(compileResult.val) = 3
    /\ compileResult.val[1].tag = "Text"
    /\ compileResult.val[3].tag = "Directive"
    /\ executed = <<2>>

\* A source that is one directive whose body is one identifier.
IsReplaceSource ==
    /\ Len(src) >= 3
    /\ src[1] = O
    /\ src[Len(src)] = C
    /\ \A i \in 2..(Len(src) - 1) : src[i] = "a"

ReplaceName == SubSeq(src, 2, Len(src) - 1)

StringForm(v) == IF v = IntVal(-12) THEN <<"-", "1", "2">> ELSE <<"b">>

MaxCount == 3

\* A string literal of a directive body, in double and in single quotes.
DQ(s) == <<"\"">> \o s \o <<"\"">>

SQ(s) == <<"'">> \o s \o <<"'">>

\* The pieces of a directive body written one after the other, sep between.
RECURSIVE Join(_, _)
Join(pieces, sep) ==
    IF pieces = <<>> THEN <<>>
    ELSE IF Len(pieces) = 1 THEN pieces[1]
    ELSE pieces[1] \o sep \o Join(Tail(pieces), sep)

Glued(pieces) == Join(pieces, <<>>)

Spaced(pieces) == Join(pieces, <<" ">>)

Braces(body) == <<"{">> \o body \o <<"}">>

\* pattern:count
RepeatPatterns == {<<"a">>, DQ(<<"x", "y">>), SQ(<<"*">>)}

InlineCounts == {NatToString(k) : k \in 0..MaxCount} \cup {<<"0", "2">>}

BadInlineCounts == {<<"-", "1">>, <<"1", ".", "5">>, DQ(<<"x">>)}

RepeatCounts == {<<"n">>} \cup InlineCounts \cup BadInlineCounts

RepeatBodies == {Glued(<<p, <<":">>, c>>) : p \in RepeatPatterns, c \in RepeatCounts}

\* cond ? a : b
ConditionalBodies ==
    { Glued(<<<<"a">>, <<"?">>, DQ(<<"y">>), <<":">>, DQ(<<"z">>)>>),
      Spaced(<<<<"a">>, <<"?">>, SQ(<<"y">>), <<":">>, SQ(<<"z">>)>>),
      Spaced(<<<<"a">>, <<"?">>, <<"b">>, <<":">>, <<"2">>>>) }

\* left op right ? a : b
ComparisonOps == {<<"=", "=">>, <<"!", "=">>, <<">">>, <<"<">>, <<">", "=">>, <<"<", "=">>}

ComparisonBody(op) ==
    Spaced(<<<<"a">>, op, <<"2">>, <<"?">>, DQ(<<"y">>), <<":">>, DQ(<<"z">>)>>)

ComparisonBodies == {ComparisonBody(op) : op \in ComparisonOps}

\* No token, a single identifier, a single string literal.
SingleBodies == {<<>>, <<" ">>, <<"a">>, DQ(<<"x">>), SQ(<<"x">>)}

\* value | p1 => r1 | ... | _ => d
SwitchPatterns == {<<"b">>, DQ(<<"x">>), <<"2">>}

SwitchResults == <<DQ(<<"p">>), DQ(<<"q">>)>>

SwitchDefault == DQ(<<"d">>)

SwitchCase(p, i) == <<<<"|">>, p, <<"=", ">">>, SwitchResults[i]>>

SwitchTail(withDefault) ==
    IF withDefault THEN <<<<"|">>, <<"_">>, <<"=", ">">>, SwitchDefault>> ELSE <<>>

\* The switch body with the case patterns ps, in that order.
SwitchBody(ps, withDefault) ==
    Spaced(<<<<"a">>>>
           \o (IF Len(ps) >= 1 THEN SwitchCase(ps[1], 1) ELSE <<>>)
           \o (IF Len(ps) >= 2 THEN SwitchCase(ps[2], 2) ELSE <<>>)
           \o SwitchTail(withDefault))

SwitchPatternLists == UNION {[1..k -> SwitchPatterns] : k \in 0..2}

SwitchBodies ==
    {SwitchBody(ps, dflt) : ps \in SwitchPatternLists, dflt \in BOOLEAN} \ {<<"a">>}

\* Bodies of no directive shape.
OtherBodies ==
    { Spaced(<<<<"a">>, <<"+">>, <<"b">>>>),
      Spaced(<<<<"a">>, <<"?">>, <<"b">>>>),
      Spaced(<<<<"a">>, <<"|">>, <<"a">>, <<"b">>>>),
      Spaced(<<<<"a">>, <<"|">>, <<"a">>, <<"=", ">">>>>),
      Spaced(<<<<"+">>, <<"|">>, <<"a">>, <<"=", ">">>, <<"b">>>>),
      Spaced(<<<<"a">>, <<":">>>>),
      Spaced(<<<<"a">>, <<"b">>>>) }

DirBodies ==
    RepeatBodies \cup ConditionalBodies \cup ComparisonBodies \cup SingleBodies
    \cup SwitchBodies \cup OtherBodies

DirSources == {Braces(b) : b \in DirBodies}

\* The values a context binds to the names a, n and b of these bodies.
DirNames == {<<"a">>, <<"n">>, <<"b">>}

DirValuesOf(name) ==
    IF name = <<"a">>
    THEN {StrVal(<<"x">>), StrVal(<<>>), StringVal(<<"x", "y">>), IntVal(0), IntVal(2),
          FloatVal(FALSE, 0, <<>>), FloatVal(FALSE, 1, <<"5">>), BoolVal(TRUE), BoolVal(FALSE)}
    ELSE IF name = <<"n">>
    THEN {IntVal(k) : k \in -1..MaxCount}
         \cup {FloatVal(FALSE, 2, <<"5">>), StringVal(<<"x">>)}
    ELSE {StrVal(<<"x">>), IntVal(2)}

DirValues == UNION {DirValuesOf(name) : name \in DirNames}

\* A context binds a and n (the names of a repeat) or a and b (those of a
\* conditional or a switch), or fewer.
DirContexts ==
    UNION {{f \in [S -> DirValues] : \A k \in S : f[k] \in DirValuesOf(k)} :
              S \in SUBSET DirNames \ {DirNames, {<<"n">>, <<"b">>}}}

InitDirectives ==
    /\ \E s \in DirSources : TemplateStart(<<"{", "}">>, s)
    /\ lex = NoLexer
    /\ evalCall = NoCall
    /\ evalResult = NotReturned
    /\ parseCall = NoCall
    /\ parseResult = NotReturned

NextDirectives ==
    \/ ValidateStep
    \/ ValidateEnd
    \/ CheckBalance
    \/ ScanStep
    \/ ScanEnd
    \/ \E ctx \in DirContexts : Format(ctx)

SpecDirectives == InitDirectives /\ [][NextDirectives]_vars

\* ----------------------------------------------------------- claims C11-C20
\* The text of a pattern, result or count as written: a literal without its
\* quotes, anything else as it stands.
Unquoted(p) == IF p[1] = "\"" THEN SubSeq(p, 2, Len(p) - 1) ELSE p

\* A name bound in the context stands for the string form of its value,
\* anything else for its own text.
Resolved(p, ctx) == IF p \in DOMAIN ctx THEN ValueToString(ctx[p]) ELSE Unquoted(p)

\* s written n times.
Times(s, n) == [i \in 1..(n * Len(s)) |-> s[((i - 1) % Len(s)) + 1]]

\* The integers n >= 0 the count c resolves to: the Int bound to it in the
\* context, or else the number it writes.
ResolvedCounts(c, ctx) ==
    {k \in 0..MaxCount :
        IF c \in DOMAIN ctx THEN ctx[c] = IntVal(k)
        ELSE c \in InlineCounts /\ DigitsToNat(c, 0) = k}

RepeatSource(p, c) == Braces(Glued(<<p, <<":">>, c>>))

FirstFormat == pc = "compiled" /\ formatCalls = 1

\* C11: a repeat directive pattern:count whose count resolves to n >= 0
\* compiles, and its first format renders the resolved pattern written
\* exactly n times, a string of n times the pattern's length.
C11_RepeatRendersNTimes ==
    \A p \in {<<"a">>, DQ(<<"x", "y">>)} : \A c \in RepeatCounts :
        src = RepeatSource(p, c) =>
            /\ (Returned /\ c \notin BadInlineCounts) => pc = "compiled"
            /\ \A k \in ResolvedCounts(c, lastCtx) :
                  FirstFormat =>
                     /\ lastResult = Ok(Times(Resolved(p, lastCtx), k))
                     /\ Len(lastResult.val) = k * Len(Resolved(p, lastCtx))

C11_Witness ==
    /\ src = RepeatSource(DQ(<<"x", "y">>), <<"n">>)
    /\ FirstFormat
    /\ <<"n">> \in DOMAIN lastCtx
    /\ lastCtx[<<"n">>] = IntVal(MaxCount)
    /\ lastResult.ok
    /\ Len(lastResult.val) = 2 * MaxCount

\* The count c is negative or not an integer: written so inline, or bound
\* in the context to a negative Int or to a value that is not an Int.
BadCount(c, ctx) ==
    IF c \in DOMAIN ctx
    THEN ctx[c].t # "Int" \/ ctx[c].v < 0
    ELSE c \in BadInlineCounts

\* C12: a repeat directive whose count is negative or not an integer,
\* bound in the context or written inline, compiles, and format returns a
\* render-time error.
C12_BadCountIsRenderError ==
    \A p \in {<<"a">>, DQ(<<"x", "y">>)} : \A c \in RepeatCounts :
        src = RepeatSource(p, c) =>
            /\ Returned => pc = "compiled"
            /\ (FirstFormat /\ BadCount(c, lastCtx)) =>
                  /\ ~lastResult.ok
                  /\ lastResult.err.kind = "DirectiveExecution"

BareConditional == Braces(Glued(<<<<"a">>, <<"?">>, DQ(<<"y">>), <<":">>, DQ(<<"z">>)>>))

ZeroValues == {BoolVal(FALSE), IntVal(0), FloatVal(FALSE, 0, <<>>)}

TrueBranch == lastResult = Ok(<<"y">>)

FalseBranch == lastResult = Ok(<<"z">>)

Holds(op, l, r) ==
    CASE op = <<"=", "=">> -> l = r
      [] op = <<"!", "=">> -> l # r
      [] op = <<">">> -> l > r
      [] op = <<"<">> -> l < r
      [] op = <<">", "=">> -> l >= r
      [] op = <<"<", "=">> -> l <= r

\* C14: a op 2 ? "y" : "z" compiles for each comparison operator op, and
\* with a bound to an integer its first format renders "y" exactly when the
\* comparison of that integer with 2 holds, and "z" otherwise.
C14_ComparisonConditional ==
    \A op \in ComparisonOps :
        src = Braces(ComparisonBody(op)) =>
            /\ Returned => pc = "compiled"
            /\ (FirstFormat /\ <<"a">> \in DOMAIN lastCtx /\ lastCtx[<<"a">>].t = "Int") =>
                  IF Holds(op, lastCtx[<<"a">>].v, 2) THEN TrueBranch ELSE FalseBranch

\* ------------------------------------------- arguments and expressions
\* Longest operand text of an evaluated expression.
MaxOperandLen == 2

\* Argument (src/src/arg.rs:24-42)
Variable(name) == [arg |-> "Variable", text |-> name]

Literal(s) == [arg |-> "Literal", text |-> s]

\* Expression (src/src/arg.rs:78-96), ComparisonOp by its variant name
Comparison(left, op, right) == [expr |-> "Comparison", left |-> left, op |-> op, right |-> right]

Not(a) == [expr |-> "Not", arg |-> a]

ComparisonOp ==
    {"Equals", "NotEquals", "GreaterThan", "LessThan", "GreaterThanEquals", "LessThanEquals"}

\* DirectiveError (src/src/err.rs)
NotFound(name, type_name) == [kind |-> "NotFound", name |-> name, type_name |-> type_name]

TypeError(name, expected, found) ==
    [kind |-> "TypeError", name |-> name, expected |-> expected, found |-> found]

ParseError(value, type_name) == [kind |-> "ParseError", value |-> value, type_name |-> type_name]

\* f64::to_astring (ryu): the shortest decimal, always with a fraction.
to_astring_f64(v) ==
    (IF v.neg THEN <<"-">> ELSE <<>>) \o NatToString(v.whole) \o <<".">>
    \o (IF v.frac = <<>> THEN <<"0">> ELSE v.frac)

\* <Cow<str> as Resolvable>::from_value
from_value_str(value) ==
    CASE value.t = "Str" -> Some(value.v)
      [] value.t = "Int" -> Some(IntToString(value.v))
      [] value.t = "Float" -> Some(to_astring_f64(value.v))
      [] value.t = "Bool" -> Some(IF value.v THEN <<"t", "r", "u", "e">>
                                  ELSE <<"f", "a", "l", "s", "e">>)

\* str::parse::<bool>()
parse_bool(s) ==
    IF s = <<"t", "r", "u", "e">> THEN Some(TRUE)
    ELSE IF s = <<"f", "a", "l", "s", "e">> THEN Some(FALSE)
    ELSE None

\* <bool as Resolvable>::from_value
from_value_bool(value) ==
    CASE value.t = "Str" -> parse_bool(value.v)
      [] value.t = "Int" -> Some(value.v # 0)
      [] value.t = "Float" -> Some(value.v.whole # 0 \/ value.v.frac # <<>>)
      [] value.t = "Bool" -> Some(value.v)

\* Argument::resolve_as::<Cow<str>> for a Variable or a Literal.
resolve_as_str(a, ctx) ==
    IF a.arg = "Variable"
    THEN IF CtxHas(ctx, a.text)
         THEN Ok(from_value_str(ctx[a.text]).val)
         ELSE Err(NotFound(a.text, "string"))
    ELSE Ok(a.text)

\* Argument::resolve_as::<bool> for a Variable or a Literal.
resolve_as_bool(a, ctx) ==
    IF a.arg = "Variable"
    THEN IF CtxHas(ctx, a.text)
         THEN IF from_value_bool(ctx[a.text]).some
              THEN Ok(from_value_bool(ctx[a.text]).val)
              ELSE Err(TypeError(a.text, "bool", ctx[a.text].t))
         ELSE Err(NotFound(a.text, "bool"))
    ELSE IF parse_bool(a.text).some
         THEN Ok(parse_bool(a.text).val)
         ELSE Err(ParseError(a.text, "bool"))

\* str::parse::<f64>() on texts of signs, digits and dots: an optional
\* sign, then digits with at most one '.', at least one digit in all.
\* The result holds the sign and the digits before and after the '.'.
parse_f64(s) ==
    LET signed == Len(s) > 0 /\ s[1] \in {"+", "-"}
        body   == IF signed THEN Tail(s) ELSE s
        dots   == {i \in 1..Len(body) : body[i] = "."}
        dot    == IF dots = {} THEN Len(body) + 1 ELSE CHOOSE i \in dots : TRUE
        whole  == SubSeq(body, 1, dot - 1)
        frac   == SubSeq(body, dot + 1, Len(body))
    IN  IF /\ Cardinality(dots) <= 1
           /\ Len(whole) + Len(frac) >= 1
           /\ \A i \in 1..Len(whole) : IsDigit(whole[i])
           /\ \A i \in 1..Len(frac) : IsDigit(frac[i])
        THEN [ok |-> TRUE, neg |-> signed /\ s[1] = "-", whole |-> whole, frac |-> frac]
        ELSE [ok |-> FALSE, neg |-> FALSE, whole |-> <<>>, frac |-> <<>>]

\* A variant of parse_f64 that accepts nothing.
parse_f64_never(s) == [ok |-> FALSE, neg |-> FALSE, whole |-> <<>>, frac |-> <<>>]

\* The f64 of a parsed text, times 10^k for k fraction digits kept.
Scaled(f, k) ==
    LET pad == [i \in 1..k |-> IF i <= Len(f.frac) THEN f.frac[i] ELSE "0"]
        n   == DigitsToNat(f.whole \o pad, 0)
    IN  IF f.neg THEN 0 - n ELSE n

\* f64::partial_cmp of two parsed texts: -1, 0 or 1.
cmp_f64(l, r) ==
    LET k == IF Len(l.frac) >= Len(r.frac) THEN Len(l.frac) ELSE Len(r.frac)
        a == Scaled(l, k)
        b == Scaled(r, k)
    IN  IF a < b THEN -1 ELSE IF a > b THEN 1 ELSE 0

\* The byte of a character of the texts compared here.
CharCode(c) ==
    CASE c = "+" -> 43 [] c = "-" -> 45 [] c = "." -> 46
      [] IsDigit(c) -> 48 + DigitVal(c)
      [] c = "a" -> 97 [] c = "b" -> 98 [] c = "e" -> 101 [] c = "f" -> 102
      [] c = "l" -> 108 [] c = "r" -> 114 [] c = "s" -> 115 [] c = "t" -> 116
      [] c = "u" -> 117

\* str::cmp: byte by byte, a proper prefix first.
RECURSIVE cmp_str(_, _)
cmp_str(l, r) ==
    IF l = <<>> THEN (IF r = <<>> THEN 0 ELSE -1)
    ELSE IF r = <<>> THEN 1
    ELSE IF CharCode(l[1]) < CharCode(r[1]) THEN -1
    ELSE IF CharCode(l[1]) > CharCode(r[1]) THEN 1
    ELSE cmp_str(Tail(l), Tail(r))

\* What an ordering operator makes of a comparison result.
ordering(op, c) ==
    CASE op = "GreaterThan" -> c > 0
      [] op = "LessThan" -> c < 0
      [] op = "GreaterThanEquals" -> c >= 0
      [] op = "LessThanEquals" -> c <= 0

\* A variant of compare whose ordering operators always compare the texts.
compare_lexicographic(left_str, op, right_str) ==
    IF op = "Equals" THEN left_str = right_str
    ELSE IF op = "NotEquals" THEN left_str # right_str
    ELSE ordering(op, cmp_str(left_str, right_str))

\* The match on op in Expression::evaluate.
compare(left_str, op, right_str) ==
    IF op = "Equals" THEN left_str = right_str
    ELSE IF op = "NotEquals" THEN left_str # right_str
    ELSE IF parse_f64(left_str).ok /\ parse_f64(right_str).ok
    THEN ordering(op, cmp_f64(parse_f64(left_str), parse_f64(right_str)))
    ELSE ordering(op, cmp_str(left_str, right_str))

\* Expression::evaluate
evaluate(e, ctx) ==
    IF e.expr = "Comparison"
    THEN LET left_str  == resolve_as_str(e.left, ctx)
             right_str == resolve_as_str(e.right, ctx)
         IN  IF ~left_str.ok THEN left_str
             ELSE IF ~right_str.ok THEN right_str
             ELSE Ok(BoolVal(compare(left_str.val, e.op, right_str.val)))
    ELSE LET value == resolve_as_bool(e.arg, ctx) IN
         IF ~value.ok THEN value ELSE Ok(BoolVal(~value.val))

\* The types a directive resolves an argument as, by their TYPE_NAME.
TypeNames == {"string", "i64", "float", "bool"}

\* str::parse::<i64>() on texts of signs and digits: an optional sign and
\* at least one digit.
parse_i64(s) ==
    LET signed == Len(s) > 0 /\ s[1] \in {"+", "-"}
        body   == IF signed THEN Tail(s) ELSE s
    IN  IF body # <<>> /\ \A i \in 1..Len(body) : IsDigit(body[i])
        THEN Some(IF signed /\ s[1] = "-" THEN 0 - DigitsToNat(body, 0) ELSE DigitsToNat(body, 0))
        ELSE None

\* The f64 a text parses to, as a Float value holds it.
f64_of_text(s) ==
    IF parse_f64(s).ok
    THEN Some([neg |-> parse_f64(s).neg, whole |-> DigitsToNat(parse_f64(s).whole, 0),
               frac |-> StripTrailingZeros(parse_f64(s).frac)])
    ELSE None

\* <i64 as Resolvable>::from_value
from_value_i64(value) ==
    CASE value.t = "Str" -> parse_i64(value.v)
      [] value.t = "Int" -> Some(value.v)
      [] value.t = "Float" -> Some(IF value.v.neg THEN 0 - value.v.whole ELSE value.v.whole)
      [] value.t = "Bool" -> Some(IF value.v THEN 1 ELSE 0)

\* <f64 as Resolvable>::from_value
from_value_f64(value) ==
    CASE value.t = "Str" -> f64_of_text(value.v)
      [] value.t = "Int" -> Some([neg |-> value.v < 0,
                                  whole |-> IF value.v < 0 THEN 0 - value.v ELSE value.v,
                                  frac |-> <<>>])
      [] value.t = "Float" -> Some(value.v)
      [] value.t = "Bool" -> Some([neg |-> FALSE, whole |-> IF value.v THEN 1 ELSE 0,
                                   frac |-> <<>>])

\* T::from_value
from_value(T, value) ==
    CASE T = "string" -> from_value_str(value)
      [] T = "i64" -> from_value_i64(value)
      [] T = "float" -> from_value_f64(value)
      [] T = "bool" -> from_value_bool(value)

\* T::from_string_slice, None for Err
from_string_slice(T, s) ==
    CASE T = "string" -> Some(s)
      [] T = "i64" -> parse_i64(s)
      [] T = "float" -> f64_of_text(s)
      [] T = "bool" -> parse_bool(s)

\* A variant of resolve_as that reports a value of the wrong type as absent.
resolve_as_not_found(a, T, ctx) ==
    IF a.arg = "Variable"
    THEN IF CtxHas(ctx, a.text) /\ from_value(T, ctx[a.text]).some
         THEN Ok(from_value(T, ctx[a.text]).val)
         ELSE Err(NotFound(a.text, T))
    ELSE IF from_string_slice(T, a.text).some
         THEN Ok(from_string_slice(T, a.text).val)
         ELSE Err(ParseError(a.text, T))

\* Argument::resolve_as::<T> for a Variable or a Literal.
resolve_as(a, T, ctx) ==
    IF a.arg = "Variable"
    THEN IF CtxHas(ctx, a.text)
         THEN IF from_value(T, ctx[a.text]).some
              THEN Ok(from_value(T, ctx[a.text]).val)
              ELSE Err(TypeError(a.text, T, ctx[a.text].t))
         ELSE Err(NotFound(a.text, T))
    ELSE IF from_string_slice(T, a.text).some
         THEN Ok(from_string_slice(T, a.text).val)
         ELSE Err(ParseError(a.text, T))

\* Operand texts are written with three digits, the dot and two letters.
OperandAlphabet == {"0", "1", "9", ".", "a", "b"}

OperandTexts == UNION {[1..n -> OperandAlphabet] : n \in 0..MaxOperandLen}

\* Texts of a boolean and of a signed integer.
TypedTexts == {<<"t", "r", "u", "e">>, <<"f", "a", "l", "s", "e">>, <<"-", "1">>}

Arguments == {Literal(s) : s \in OperandTexts \cup TypedTexts} \cup {Variable(<<"v">>)}

\* The contexts of an evaluation bind v or nothing.
EvalContexts ==
    {f \in [{<<"v">>} -> {StrVal(<<"b">>), IntVal(10), IntVal(-1), FloatVal(FALSE, 9, <<>>),
                          BoolVal(TRUE), StrVal(<<"t", "r", "u", "e">>),
                          StrVal(<<"1", ".", "9">>), StrVal(<<"1", "9">>),
                          FloatVal(TRUE, 1, <<"5">>), IntVal(0), BoolVal(FALSE)}] : TRUE}
    \cup {EmptyCtx}

\* The operands of an expression about to be built and evaluated; a
\* context other than the empty one only when an operand is a variable.
EvalOperands ==
    {c \in [left : Arguments, right : Arguments, ctx : EvalContexts] :
        c.ctx = EmptyCtx \/ c.left.arg = "Variable" \/ c.right.arg = "Variable"}

InitEvaluate ==
    /\ TemplateStart(<<"{", "}">>, <<>>)
    /\ lex = NoLexer
    /\ evalCall \in EvalOperands
    /\ evalResult = NotReturned
    /\ parseCall = NoCall
    /\ parseResult = NotReturned

\* Expression::Comparison { left, op, right }.evaluate(ctx)
EvaluateComparison(op) ==
    /\ evalResult = NotReturned
    /\ evalCall' = [expr |-> Comparison(evalCall.left, op, evalCall.right), ctx |-> evalCall.ctx]
    /\ evalResult' = evaluate(Comparison(evalCall.left, op, evalCall.right), evalCall.ctx)
    /\ UNCHANGED <<templateVars, lexerVars, parserVars>>

\* Expression::Not(left).evaluate(ctx)
EvaluateNot ==
    /\ evalResult = NotReturned
    /\ evalCall.right = Literal(<<>>)
    /\ evalCall' = [expr |-> Not(evalCall.left), ctx |-> evalCall.ctx]
    /\ evalResult' = evaluate(Not(evalCall.left), evalCall.ctx)
    /\ UNCHANGED <<templateVars, lexerVars, parserVars>>

\* left.resolve_as::<T>(ctx)
ResolveAs(T) ==
    /\ evalResult = NotReturned
    /\ evalCall.right = Literal(<<>>)
    /\ evalCall' = [arg |-> evalCall.left, type |-> T, ctx |-> evalCall.ctx]
    /\ evalResult' = resolve_as(evalCall.left, T, evalCall.ctx)
    /\ UNCHANGED <<templateVars, lexerVars, parserVars>>

NextEvaluate ==
    \/ \E op \in ComparisonOp : EvaluateComparison(op)
    \/ EvaluateNot
    \/ \E T \in TypeNames : ResolveAs(T)

SpecEvaluate == InitEvaluate /\ [][NextEvaluate]_vars

OrderingOps == {"GreaterThan", "LessThan", "GreaterThanEquals", "LessThanEquals"}

Evaluated == evalResult # NotReturned

EvaluatedOrdering ==
    /\ Evaluated
    /\ "expr" \in DOMAIN evalCall
    /\ evalCall.expr.expr = "Comparison"
    /\ evalCall.expr.op \in OrderingOps

\* A text of digits only, and op between the numbers two such texts write.
AllDigits(s) == s # <<>> /\ \A i \in 1..Len(s) : s[i] \in DigitSet

HoldsBetween(op, l, r) ==
    CASE op = "GreaterThan" -> l > r
      [] op = "LessThan" -> l < r
      [] op = "GreaterThanEquals" -> l >= r
      [] op = "LessThanEquals" -> l <= r

\* C15: an ordering comparison resolves both operands to strings; when
\* both parse as numbers the result is the comparison of the two numbers,
\* otherwise the lexicographic comparison of the two strings. Two texts of
\* digits compare as the integers they write, "10" > "9" is true and
\* "b" > "a" is true.
C15_OrderingComparison ==
    EvaluatedOrdering =>
        LET e == evalCall.expr
            l == resolve_as_str(e.left, evalCall.ctx)
            r == resolve_as_str(e.right, evalCall.ctx)
        IN  /\ (l.ok /\ r.ok) =>
                 /\ evalResult.ok
                 /\ evalResult.val.t = "Bool"
                 /\ evalResult.val.v =
                      IF parse_f64(l.val).ok /\ parse_f64(r.val).ok
                      THEN ordering(e.op, cmp_f64(parse_f64(l.val), parse_f64(r.val)))
                      ELSE ordering(e.op, cmp_str(l.val, r.val))
                 /\ (AllDigits(l.val) /\ AllDigits(r.val)) =>
                      evalResult.val.v = HoldsBetween(e.op, DigitsToNat(l.val, 0), DigitsToNat(r.val, 0))
            /\ (e.left = Literal(<<"1", "0">>) /\ e.right = Literal(<<"9">>)) =>
                 evalResult = Ok(BoolVal(e.op \in {"GreaterThan", "GreaterThanEquals"}))
            /\ (e.left = Literal(<<"b">>) /\ e.right = Literal(<<"a">>)) =>
                 evalResult = Ok(BoolVal(e.op \in {"GreaterThan", "GreaterThanEquals"}))
            /\ (e.left = Literal(<<"1", "0">>) /\ e.right = Literal(<<"9", "a">>)) =>
                 evalResult = Ok(BoolVal(e.op \in {"LessThan", "LessThanEquals"}))

C15_Witness ==
    /\ EvaluatedOrdering
    /\ evalCall.expr = Comparison(Literal(<<"1", "0">>), "GreaterThan", Literal(<<"9">>))
    /\ evalResult = Ok(BoolVal(TRUE))

\* C16: a body that is one string literal compiles to a replacement that
\* renders the literal's text for every context.
C16_LiteralBodyRendersItself ==
    \A q \in {DQ(<<"x">>), SQ(<<"x">>)} :
        src = Braces(q) =>
            /\ Returned => pc = "compiled"
            /\ FirstFormat => lastResult = Ok(<<"x">>)

\* C17: a single-quoted string is one string-literal token holding the
\* quoted text: {'*':c} compiles and renders c stars, and a ? 'y' : 'z'
\* compiles and renders y or z.
C17_SingleQuotedLiteral ==
    /\ \A c \in InlineCounts :
          src = RepeatSource(SQ(<<"*">>), c) =>
              /\ Returned => pc = "compiled"
              /\ Returned => bodies = <<SQ(<<"*">>) \o <<":">> \o c>>
              /\ Returned => tokenize(bodies[1])[1] = Tok("Literal", <<"*">>)
              /\ FirstFormat => lastResult = Ok(Times(<<"*">>, DigitsToNat(c, 0)))
    /\ src = Braces(Spaced(<<<<"a">>, <<"?">>, SQ(<<"y">>), <<":">>, SQ(<<"z">>)>>)) =>
          /\ Returned => pc = "compiled"
          /\ FirstFormat => (TrueBranch \/ FalseBranch)

\* The one directive body of a source of the shape {body}.
Body == SubSeq(src, 2, Len(src) - 1)

\* The token shapes of a directive: nothing, one value, value : value,
\* value ? value : value, value op value ? value : value,
\* ! value ? value : value, and value | p => r | ... | _ => d.
IsValue(t) == t.type \in {"Ident", "Literal", "Int", "Float"}

IsComparison(t) ==
    t.type \in {"Equal", "NotEqual", "GreaterThan", "LessThan", "GreaterThanOrEqual",
                "LessThanOrEqual"}

TypesAre(toks, types) ==
    /\ Len(toks) = Len(types)
    /\ \A i \in 1..Len(types) :
          CASE types[i] = "value" -> IsValue(toks[i])
            [] types[i] = "op" -> IsComparison(toks[i])
            [] OTHER -> toks[i].type = types[i]

IsSwitchShape(toks) ==
    /\ Len(toks) >= 5
    /\ (Len(toks) - 1) % 4 = 0
    /\ IsValue(toks[1])
    /\ \A g \in 1..((Len(toks) - 1) \div 4) :
          /\ toks[4 * g - 2].type = "Pipe"
          /\ IsValue(toks[4 * g - 1]) \/ toks[4 * g - 1].type = "Underscore"
          /\ toks[4 * g].type = "Arrow"
          /\ IsValue(toks[4 * g + 1])

RecognizedShape(toks) ==
    \/ toks = <<>>
    \/ TypesAre(toks, <<"value">>)
    \/ TypesAre(toks, <<"value", "Colon", "value">>)
    \/ TypesAre(toks, <<"value", "Question", "value", "Colon", "value">>)
    \/ TypesAre(toks, <<"value", "op", "value", "Question", "value", "Colon", "value">>)
    \/ TypesAre(toks, <<"Not", "value", "Question", "value", "Colon", "value">>)
    \/ IsSwitchShape(toks)

\* C18: when the tokens of a directive body have none of the directive
\* shapes, compile returns a DirectiveParsing error and no Template.
C18_UnrecognizedShapeFailsCompile ==
    (Returned /\ ~RecognizedShape(tokenize(Body))) =>
        /\ pc = "failed"
        /\ ~compileResult.ok
        /\ compileResult.err.kind = "DirectiveParsing"
        /\ formatCalls = 0

C18_Witness ==
    /\ src = Braces(Spaced(<<<<"a">>, <<"+">>, <<"b">>>>))
    /\ pc = "failed"
    /\ compileResult.err = DirectiveParsing("Unhandled token pattern")

\* The cases of the pattern list ps whose resolved pattern equals the
\* resolved selector a.
MatchingCases(ps, ctx) ==
    {i \in 1..Len(ps) : Resolved(ps[i], ctx) = Resolved(<<"a">>, ctx)}

FirstOfCases(S) == CHOOSE i \in S : \A j \in S : i <= j

\* C19: a switch a | p1 => r1 | ... [| _ => d] compiles; its first format
\* renders the result of the first case whose resolved pattern equals the
\* resolved selector, the default's result when no case matches, and
\* returns an error when no case matches and there is no default.
C19_SwitchFirstMatch ==
    \A ps \in SwitchPatternLists : \A dflt \in BOOLEAN :
        (src = Braces(SwitchBody(ps, dflt)) /\ (ps # <<>> \/ dflt)) =>
            /\ Returned => pc = "compiled"
            /\ FirstFormat =>
                  IF MatchingCases(ps, lastCtx) # {}
                  THEN lastResult =
                          Ok(Unquoted(SwitchResults[FirstOfCases(MatchingCases(ps, lastCtx))]))
                  ELSE IF dflt
                  THEN lastResult = Ok(Unquoted(SwitchDefault))
                  ELSE ~lastResult.ok /\ lastResult.err.kind = "DirectiveExecution"

C19_Witness ==
    /\ src = Braces(SwitchBody(<<DQ(<<"x">>), <<"b">>>>, TRUE))
    /\ FirstFormat
    /\ MatchingCases(<<DQ(<<"x">>), <<"b">>>>, lastCtx) = {1, 2}
    /\ lastResult = Ok(<<"p">>)

\* ------------------------------------------------------------ lexer runs
\* Longest input handed to a Lexer.
MaxLexLen == 4

\* Lexer inputs are written with two digits, the dot (a character of no
\* lexical rule outside a number), a letter, a blank, the underscore, the
\* double quote and '\0'.
LexAlphabet == {"4", "2", ".", "a", " ", "_", "\"", NUL}

LexInputs == UNION {[1..n -> LexAlphabet] : n \in 0..MaxLexLen}

\* Lexer::new(input)
InitLexer ==
    /\ TemplateStart(<<"{", "}">>, <<>>)
    /\ \E input \in LexInputs :
          lex = [input |-> input, cursor |-> 1, tokens |-> <<>>, done |-> FALSE]
    /\ evalCall = NoCall
    /\ evalResult = NotReturned
    /\ parseCall = NoCall
    /\ parseResult = NotReturned

\* Iterator::next of the Lexer, returning Some(token).
NextToken ==
    /\ ~lex.done
    /\ next_token(lex.input, lex.cursor).tok # NoTok
    /\ lex' = [lex EXCEPT !.cursor = next_token(lex.input, lex.cursor).cursor,
                          !.tokens = Append(lex.tokens, next_token(lex.input, lex.cursor).tok)]
    /\ UNCHANGED <<templateVars, evalVars, parserVars>>

\* Iterator::next of the Lexer, returning None: collect() ends.
EndOfInput ==
    /\ ~lex.done
    /\ next_token(lex.input, lex.cursor).tok = NoTok
    /\ lex' = [lex EXCEPT !.cursor = next_token(lex.input, lex.cursor).cursor, !.done = TRUE]
    /\ UNCHANGED <<templateVars, evalVars, parserVars>>

NextLexer == NextToken \/ EndOfInput

SpecLexer == InitLexer /\ [][NextLexer]_vars

\* A call of next_token that starts on a digit, the characters it consumed
\* and the token it returned.
NumberStart == skip_whitespace(lex.input, lex.cursor)

LexedNumber ==
    /\ Len(lex'.tokens) = Len(lex.tokens) + 1
    /\ IsDigit(CharAt(lex.input, NumberStart))

Consumed == SubSeq(lex.input, NumberStart, lex'.cursor - 1)

ReturnedToken == lex'.tokens[Len(lex'.tokens)]

DotsOf(s) == {i \in 1..Len(s) : s[i] = "."}

\* The number is a float exactly when it took one '.', and a '.' is taken
\* only with a digit after it.
FloatOnlyWithDigitAfterDot ==
    /\ Cardinality(DotsOf(Consumed)) <= 1
    /\ \A i \in DotsOf(Consumed) : i < Len(Consumed) /\ IsDigit(Consumed[i + 1])
    /\ ReturnedToken.type = (IF DotsOf(Consumed) = {} THEN "Int" ELSE "Float")
    /\ (CharAt(lex.input, lex'.cursor) = "." /\ IsDigit(Peek(lex.input, lex'.cursor)))
          => DotsOf(Consumed) # {}

DotIsUnknown == next_token(lex.input, lex'.cursor).tok = Tok("Unknown", <<".">>)

LexedToken == Len(lex'.tokens) = Len(lex.tokens) + 1

TokenStart == skip_whitespace(lex.input, lex.cursor)

LastToken == lex'.tokens[Len(lex'.tokens)]

IdentChar(c) == c \in LetterSet \cup DigitSet \cup {"_"}

\* The end (exclusive) of the maximal run of identifier characters from i.
RECURSIVE RunEnd(_, _)
RunEnd(input, i) ==
    IF i <= Len(input) /\ IdentChar(input[i]) THEN RunEnd(input, i + 1) ELSE i

IdentRun == SubSeq(lex.input, TokenStart, RunEnd(lex.input, TokenStart) - 1)

\* C21 (as stated): a token starting on a letter or '_' is the identifier
\* of the maximal run of identifier characters, except that a bare '_' with
\* no identifier character after it is the Underscore token.
C21_UnderscoreStartsIdentifier ==
    [][(LexedToken /\ CharAt(lex.input, TokenStart) \in LetterSet \cup {"_"}) =>
          IF IdentRun = <<"_">>
          THEN LastToken = Tok("Underscore", <<>>) /\ lex'.cursor = TokenStart + 1
          ELSE /\ LastToken = Tok("Ident", IdentRun)
               /\ lex'.cursor = RunEnd(lex.input, TokenStart)]_vars

\* C21 (amended): a token starting on a letter is the identifier of the
\* maximal run of identifier characters; a token starting on '_' is the
\* Underscore token of that one character, whatever follows it.
C21_UnderscoreIsItsOwnToken ==
    [][(LexedToken /\ CharAt(lex.input, TokenStart) \in LetterSet \cup {"_"}) =>
          IF CharAt(lex.input, TokenStart) = "_"
          THEN LastToken = Tok("Underscore", <<>>) /\ lex'.cursor = TokenStart + 1
          ELSE /\ LastToken = Tok("Ident", IdentRun)
               /\ lex'.cursor = RunEnd(lex.input, TokenStart)]_vars

\* "_a_4" has been lexed as Underscore, Ident(a_4).
C21_Witness ==
    /\ lex.input = <<"_", "a", "_", "4">>
    /\ lex.tokens = <<Tok("Underscore", <<>>), Tok("Ident", <<"a", "_", "4">>)>>
    /\ lex.done

OnlyBlanks(input, from, to) == \A i \in from..to : i <= Len(input) => IsWhitespace(input[i])

Finished == lex.done' /\ ~lex.done

\* C22: tokenize drops no input. A call that returns a token skipped only
\* blanks before it and consumed at least one character; a character of no
\* lexical rule becomes Unknown of that character, one character long; and
\* the call that ends the tokenization leaves only blanks unread.
C22_NoInputDropped ==
    [][/\ LexedToken =>
             /\ OnlyBlanks(lex.input, lex.cursor, TokenStart - 1)
             /\ lex'.cursor > TokenStart
             /\ CharAt(lex.input, TokenStart) = "." =>
                   (LastToken = Tok("Unknown", <<".">>) /\ lex'.cursor = TokenStart + 1)
       /\ Finished => OnlyBlanks(lex.input, lex.cursor, Len(lex.input))]_vars

\* collect() calls Iterator::next until it returns None.
SpecLexerFair == SpecLexer /\ WF_vars(NextLexer)

\* C29: a call of next_token that returns a token advances the cursor by at
\* least one character, the cursor never moves backwards, and the number of
\* tokens never exceeds the number of input characters, so that the
\* tokenization ends.
C29_TokenizeTerminates ==
    /\ [][/\ lex'.cursor >= lex.cursor
          /\ LexedToken => lex'.cursor >= lex.cursor + 1
          /\ Len(lex'.tokens) <= Len(lex.input)
          /\ Len(lex'.tokens) < lex'.cursor]_vars
    /\ <>(lex.done)


\* An input of MaxLexLen characters has been lexed into as many tokens.
C29_Witness ==
    /\ lex.done
    /\ Len(lex.input) = MaxLexLen
    /\ Len(lex.tokens) = MaxLexLen

\* A resolve_as call has returned.
ResolvedAs == Evaluated /\ "type" \in DOMAIN evalCall

\* Texts that write a value of the type: any text for a string, a signed
\* run of digits for an i64, a decimal number for a float, true or false
\* for a bool.
SignedDigits(s) ==
    \E k \in 1..2 :
        /\ (k = 2) => (Len(s) >= 1 /\ s[1] \in {"+", "-"})
        /\ Len(s) >= k
        /\ \A i \in k..Len(s) : s[i] \in DigitSet

WritesType(s, T) ==
    CASE T = "string" -> TRUE
      [] T = "i64" -> SignedDigits(s)
      [] T = "float" -> parse_f64(s).ok
      [] T = "bool" -> s \in {<<"t", "r", "u", "e">>, <<"f", "a", "l", "s", "e">>}

\* A Value is convertible to the type unless it is a string that does not
\* write a value of it.
Convertible(value, T) == value.t = "Str" => WritesType(value.v, T)

\* C23: for a Variable resolve_as returns NotFound with the name and the
\* type exactly when the name is absent, TypeError with the name, the type
\* and the found type exactly when it is present and not convertible, and
\* Ok otherwise; for a Literal it returns ParseError exactly when the text
\* does not write a value of the type, and Ok otherwise.
C23_ResolveErrors ==
    ResolvedAs =>
        LET a == evalCall.arg
            T == evalCall.type
            ctx == evalCall.ctx
        IN  IF a.arg = "Variable"
            THEN IF a.text \notin DOMAIN ctx
                 THEN evalResult = Err(NotFound(a.text, T))
                 ELSE IF ~Convertible(ctx[a.text], T)
                 THEN evalResult = Err(TypeError(a.text, T, ctx[a.text].t))
                 ELSE evalResult.ok
            ELSE IF ~WritesType(a.text, T)
                 THEN evalResult = Err(ParseError(a.text, T))
                 ELSE evalResult.ok

\* A variable bound to the string "b" has been resolved as an i64.
C23_Witness ==
    /\ ResolvedAs
    /\ evalCall.arg = Variable(<<"v">>)
    /\ evalCall.type = "i64"
    /\ <<"v">> \in DOMAIN evalCall.ctx
    /\ evalCall.ctx[<<"v">>] = StrVal(<<"b">>)
    /\ evalResult = Err(TypeError(<<"v">>, "i64", "Str"))

\* C24: resolving a variable the context binds, as a string or as a
\* boolean, returns Ok whatever Value it holds.
C24_StringAndBoolAreTotal ==
    (/\ ResolvedAs
     /\ evalCall.arg.arg = "Variable"
     /\ evalCall.arg.text \in DOMAIN evalCall.ctx
     /\ evalCall.type \in {"string", "bool"}) => evalResult.ok

\* ------------------------------------------------------- permissive parser
\* The tokens of directives.rs: Slice(text) and Symbol(char).
MaxTokens == 5

Slice(s) == [type |-> "Slice", val |-> s]

Symbol(c) == [type |-> "Symbol", val |-> c]

\* iter().position(|t| matches!(t, Token::Symbol(c))): the first index, 0 for None.
RECURSIVE position_from(_, _, _)
position_from(tokens, c, i) ==
    IF i > Len(tokens) THEN 0
    ELSE IF tokens[i] = Symbol(c) THEN i
    ELSE position_from(tokens, c, i + 1)

position(tokens, c) == position_from(tokens, c, 1)

\* iter().rposition(...): the last index, 0 for None.
RECURSIVE rposition_from(_, _, _)
rposition_from(tokens, c, i) ==
    IF i = 0 THEN 0
    ELSE IF tokens[i] = Symbol(c) THEN i
    ELSE rposition_from(tokens, c, i - 1)

rposition(tokens, c) == rposition_from(tokens, c, Len(tokens))

RECURSIVE tokens_to_string(_)
tokens_to_string(tokens) ==
    IF tokens = <<>> THEN <<>>
    ELSE (IF Head(tokens).type = "Slice" THEN Head(tokens).val ELSE <<Head(tokens).val>>)
            \o tokens_to_string(Tail(tokens))

contains_question_mark(tokens) == \E i \in 1..Len(tokens) : tokens[i] = Symbol("?")

\* The inner loop that runs to the matching closing parenthesis: the index it
\* stops at and the count it stops with.
RECURSIVE skip_parentheses(_, _, _)
skip_parentheses(tokens, j, paren_count) ==
    IF j <= Len(tokens) /\ paren_count > 0
    THEN skip_parentheses(tokens, j + 1,
             IF tokens[j] = Symbol("(") THEN paren_count + 1
             ELSE IF tokens[j] = Symbol(")") THEN paren_count - 1
             ELSE paren_count)
    ELSE [i |-> j, paren_count |-> paren_count]

RECURSIVE count_parentheses_loop(_, _, _)
count_parentheses_loop(tokens, i, count) ==
    IF i > Len(tokens) THEN count
    ELSE IF tokens[i] = Symbol("(")
         THEN count_parentheses_loop(tokens, skip_parentheses(tokens, i + 1, 1).i, count + 1)
         ELSE count_parentheses_loop(tokens, i + 1, count)

count_parentheses_pairs(tokens) == count_parentheses_loop(tokens, 1, 0)

\* The inner loop of parentheses_contain_colons: found, or the index it stops at.
RECURSIVE colon_in_parentheses(_, _, _)
colon_in_parentheses(tokens, j, paren_count) ==
    IF j <= Len(tokens) /\ paren_count > 0
    THEN IF tokens[j] = Symbol("(") THEN colon_in_parentheses(tokens, j + 1, paren_count + 1)
         ELSE IF tokens[j] = Symbol(")") THEN colon_in_parentheses(tokens, j + 1, paren_count - 1)
         ELSE IF tokens[j] = Symbol(":") /\ paren_count = 1 THEN [found |-> TRUE, i |-> j]
         ELSE colon_in_parentheses(tokens, j + 1, paren_count)
    ELSE [found |-> FALSE, i |-> j]

RECURSIVE contain_colons_loop(_, _)
contain_colons_loop(tokens, i) ==
    IF i > Len(tokens) THEN FALSE
    ELSE IF tokens[i] = Symbol("(")
         THEN colon_in_parentheses(tokens, i + 1, 1).found
                 \/ contain_colons_loop(tokens, colon_in_parentheses(tokens, i + 1, 1).i)
         ELSE contain_colons_loop(tokens, i + 1)

parentheses_contain_colons(tokens) == contain_colons_loop(tokens, 1)

has_brackets_and_parentheses(tokens) ==
    /\ position(tokens, "[") # 0
    /\ position(tokens, "]") # 0
    /\ position(tokens, "(") # 0
    /\ position(tokens, ")") # 0

is_switch_directive(tokens) ==
    IF tokens = <<>> THEN FALSE
    ELSE IF ~has_brackets_and_parentheses(tokens) THEN FALSE
    ELSE IF count_parentheses_pairs(tokens) = 2 THEN parentheses_contain_colons(tokens)
    ELSE count_parentheses_pairs(tokens) > 2

is_bracket_conditional(tokens) ==
    IF tokens = <<>> THEN FALSE
    ELSE IF ~has_brackets_and_parentheses(tokens) THEN FALSE
    ELSE count_parentheses_pairs(tokens) = 2 /\ ~parentheses_contain_colons(tokens)

RECURSIVE parse_conditional_cases_loop(_, _, _)
parse_conditional_cases_loop(tokens, i, cases) ==
    IF i > Len(tokens) THEN (IF cases = <<>> THEN None ELSE Some(cases))
    ELSE IF tokens[i] # Symbol("(") THEN parse_conditional_cases_loop(tokens, i + 1, cases)
    ELSE LET end == skip_parentheses(tokens, i + 1, 1) IN
         IF end.paren_count # 0 THEN None
         ELSE parse_conditional_cases_loop(tokens, end.i,
                  Append(cases, tokens_to_string(SubSeq(tokens, i + 1, end.i - 2))))

parse_conditional_cases(tokens) == parse_conditional_cases_loop(tokens, 1, <<>>)

parse_bracket_conditional(tokens) ==
    LET bracket_start == position(tokens, "[")
        bracket_end == position(tokens, "]")
        cases == parse_conditional_cases(SubSeq(tokens, bracket_end + 1, Len(tokens)))
    IN IF bracket_start = 0 \/ bracket_end = 0 THEN None
       ELSE IF bracket_start >= bracket_end THEN None
       ELSE IF cases = None THEN None
       ELSE IF Len(cases.val) # 2 THEN None
       ELSE Some(ConditionalDirective(
                     tokens_to_string(SubSeq(tokens, bracket_start + 1, bracket_end - 1)),
                     cases.val[1], cases.val[2]))

RECURSIVE parse_match_cases_loop(_, _, _)
parse_match_cases_loop(tokens, i, cases) ==
    IF i > Len(tokens) THEN (IF cases = <<>> THEN None ELSE Some(cases))
    ELSE IF tokens[i] # Symbol("(") THEN parse_match_cases_loop(tokens, i + 1, cases)
    ELSE LET end == skip_parentheses(tokens, i + 1, 1)
             case_tokens == SubSeq(tokens, i + 1, end.i - 2)
             colon_pos == position(case_tokens, ":")
         IN IF end.paren_count # 0 THEN None
            ELSE IF colon_pos = 0 THEN None
            ELSE parse_match_cases_loop(tokens, end.i,
                     Append(cases,
                            <<tokens_to_string(SubSeq(case_tokens, 1, colon_pos - 1)),
                              tokens_to_string(SubSeq(case_tokens, colon_pos + 1, Len(case_tokens)))>>))

parse_match_cases(tokens) == parse_match_cases_loop(tokens, 1, <<>>)

parse_switch_directive(tokens) ==
    LET bracket_start == position(tokens, "[")
        bracket_end == position(tokens, "]")
        cases == parse_match_cases(SubSeq(tokens, bracket_end + 1, Len(tokens)))
    IN IF bracket_start = 0 \/ bracket_end = 0 THEN None
       ELSE IF bracket_start >= bracket_end THEN None
       ELSE IF cases = None THEN None
       ELSE Some(SwitchDirective(
                     tokens_to_string(SubSeq(tokens, bracket_start + 1, bracket_end - 1)),
                     cases.val, None))

parse_conditional(tokens) ==
    LET question_pos == position(tokens, "?")
        colon_pos == rposition(tokens, ":")
    IN IF question_pos = 0 \/ colon_pos = 0 THEN None
       ELSE IF question_pos >= colon_pos THEN None
       ELSE Some(ConditionalDirective(
                     tokens_to_string(SubSeq(tokens, 1, question_pos - 1)),
                     tokens_to_string(SubSeq(tokens, question_pos + 1, colon_pos - 1)),
                     tokens_to_string(SubSeq(tokens, colon_pos + 1, Len(tokens)))))

\* NoDirective(content) of directives.rs keeps the body it was built from.
NoDirectiveOf(content) == [kind |-> "NoDirective", content |-> content]

\* DefaultParser::parse(tokens, content) of directives.rs.
permissive_parse(tokens, content) ==
    IF Len(tokens) = 1 /\ tokens[1].type = "Slice" THEN Some(ReplaceDirective(tokens[1].val))
    ELSE IF Len(tokens) = 3 /\ tokens[2] = Symbol(":")
    THEN IF contains_question_mark(tokens) THEN parse_conditional(tokens)
         ELSE Some(RepeatDirective(tokens_to_string(<<tokens[1]>>), tokens_to_string(<<tokens[3]>>)))
    ELSE IF /\ Len(tokens) = 5
            /\ tokens[1].type = "Slice" /\ tokens[2] = Symbol("?") /\ tokens[3].type = "Slice"
            /\ tokens[4] = Symbol(":") /\ tokens[5].type = "Slice"
    THEN Some(ConditionalDirective(tokens[1].val, tokens[3].val, tokens[5].val))
    ELSE IF is_bracket_conditional(tokens) THEN parse_bracket_conditional(tokens)
    ELSE IF is_switch_directive(tokens) THEN parse_switch_directive(tokens)
    ELSE IF contains_question_mark(tokens) THEN parse_conditional(tokens)
    ELSE Some(NoDirectiveOf(content))

\* The tokens a body can be made of: a word and the six symbols the parser
\* looks for.
TokenAlphabet ==
    {Slice(<<"a">>), Symbol("?"), Symbol(":"), Symbol("["), Symbol("]"), Symbol("("), Symbol(")")}

TokenSeqs == UNION {[1..n -> TokenAlphabet] : n \in 0..MaxTokens}

InitParser ==
    /\ TemplateStart(<<"{", "}">>, <<>>)
    /\ lex = NoLexer
    /\ evalCall = NoCall
    /\ evalResult = NotReturned
    /\ \E tokens \in TokenSeqs :
          parseCall = [tokens |-> tokens, content |-> tokens_to_string(tokens)]
    /\ parseResult = NotReturned

\* DefaultParser::parse(&tokens, content)
PermissiveParse ==
    /\ parseResult = NotReturned
    /\ parseResult' = permissive_parse(parseCall.tokens, parseCall.content)
    /\ UNCHANGED <<templateVars, lexerVars, evalVars, parseCall>>

NextParser == PermissiveParse

SpecParser == InitParser /\ [][NextParser]_vars

\* C25: the permissive parser never returns None: whatever the tokens, once
\* parse has returned, it returned Some directive.
C25_PermissiveParserNeverReturnsNone ==
    parseResult # NotReturned => parseResult # None

\* ---------------------------------------------------------------- C26, C27
\* The top-level directive bodies of src in source order, read off the
\* source from position i on: d is the nesting depth, cur the body being
\* read, out the bodies closed so far. A backslash gives way to the
\* character after it.
RECURSIVE TopBodiesFrom(_, _, _, _)
TopBodiesFrom(i, d, cur, out) ==
    IF i > Len(src) THEN out
    ELSE IF src[i] = BS
    THEN TopBodiesFrom(i + 2, d,
                       IF d > 0 /\ i + 1 <= Len(src) THEN Append(cur, src[i + 1]) ELSE cur, out)
    ELSE IF src[i] = O /\ O = C
    THEN IF d = 0 THEN TopBodiesFrom(i + 1, 1, <<>>, out)
         ELSE TopBodiesFrom(i + 1, 0, <<>>, Append(out, cur))
    ELSE IF src[i] = O
    THEN TopBodiesFrom(i + 1, d + 1, IF d > 0 THEN Append(cur, O) ELSE <<>>, out)
    ELSE IF src[i] = C
    THEN IF d = 1 THEN TopBodiesFrom(i + 1, 0, <<>>, Append(out, cur))
         ELSE TopBodiesFrom(i + 1, d - 1, Append(cur, C), out)
    ELSE TopBodiesFrom(i + 1, d, IF d > 0 THEN Append(cur, src[i]) ELSE cur, out)

TopBodies == TopBodiesFrom(1, 0, <<>>, <<>>)

Scanning == pc \in {"scan", "compiled"} \/ (pc = "failed" /\ balance = 0)

JustCompiled == pc = "compiled" /\ formatCalls = 0

\* The balance pass taken one character further from where the scan stands.
BalanceStep ==
    validate_step([pos |-> pos, inside |-> depth = 1, depth |-> depth, returned |-> FALSE],
                  src, O, C)

\* An iteration of the main scan that goes on moves the position and the
\* depth as the balance pass does.
ScanFollowsBalance ==
    (pc = "scan" /\ pc' = "scan" /\ pos' # pos) =>
        /\ pos' = BalanceStep.pos
        /\ depth' = (IF O = C THEN (IF BalanceStep.inside THEN 1 ELSE 0) ELSE BalanceStep.depth)
        /\ ~BalanceStep.returned
        /\ Len(bodies') = Len(bodies) + (IF depth = 1 /\ depth' = 0 THEN 1 ELSE 0)

\* C26: on a source whose balance is 0 the depth of the main scan is never
\* negative, moves with every character as the running depth of the balance
\* pass does, and is 0 with no body pending at the end of the input; the
\* bodies handed to the parser are the top-level bodies of the source, once
\* each.
C26_ScanDepthFollowsBalance ==
    /\ [](Scanning => (balance = 0 /\ depth >= 0))
    /\ [](JustCompiled => (depth = 0 /\ directive_content = <<>> /\ bodies = TopBodies))
    /\ [][ScanFollowsBalance]_vars

C26_Witness ==
    /\ pc = "compiled"
    /\ O # C
    /\ Len(bodies) = 2
    /\ depth = 0
    /\ \E q \in 1..Len(src) : src[q] = BS

DirectiveParts(ps) == SelectSeq(ps, LAMBDA p : p.tag = "Directive")

\* C27: the parts of a compiled Template hold no empty Text and no two Text
\* parts in a row, and their Directive parts are the top-level bodies of the
\* source, one each, in source order.
C27_PartsAreCoalesced ==
    JustCompiled =>
        LET ps == compileResult.val IN
        /\ \A i \in 1..Len(ps) : ps[i].tag = "Text" => ps[i].str # <<>>
        /\ \A i \in 1..(Len(ps) - 1) : ~(ps[i].tag = "Text" /\ ps[i + 1].tag = "Text")
        /\ Len(DirectiveParts(ps)) = Len(TopBodies)
        /\ \A i \in 1..Len(DirectiveParts(ps)) :
              DirectiveParts(ps)[i].dir = parse(tokenize(TopBodies[i])).val

C27_Witness ==
    /\ JustCompiled
    /\ Len(compileResult.val) = 3
    /\ compileResult.val[1].tag = "Text"
    /\ compileResult.val[3].tag = "Text"
    /\ \E q \in 1..Len(src) : src[q] = BS

\* ---------------------------------------------------------------------- C30
\* The text of src outside its directives, read off the source from position
\* i on at nesting depth d; a backslash gives way to the character after it.
RECURSIVE OutsideFrom(_, _, _)
OutsideFrom(i, d, out) ==
    IF i > Len(src) THEN out
    ELSE IF src[i] = BS
    THEN OutsideFrom(i + 2, d, IF d = 0 /\ i + 1 <= Len(src) THEN Append(out, src[i + 1]) ELSE out)
    ELSE IF src[i] = O /\ O = C THEN OutsideFrom(i + 1, 1 - d, out)
    ELSE IF src[i] = O THEN OutsideFrom(i + 1, d + 1, out)
    ELSE IF src[i] = C THEN OutsideFrom(i + 1, d - 1, out)
    ELSE OutsideFrom(i + 1, d, IF d = 0 THEN Append(out, src[i]) ELSE out)

Outside == OutsideFrom(1, 0, <<>>)

BlankBody(b) == OnlyBlanks(b, 1, Len(b))

\* C30: a directive whose body is empty or blank is accepted by the parser,
\* and a template all of whose directives are such renders, on its first
\* format and whatever the context, the text around them.
C30_EmptyDirectiveRendersNothing ==
    /\ (pc = "failed" /\ balance = 0) => ~BlankBody(bodies[Len(bodies)])
    /\ (FirstFormat /\ bodies # <<>> /\ \A i \in 1..Len(bodies) : BlankBody(bodies[i]))
          => lastResult = Ok(Outside)

C30_Witness ==
    /\ FirstFormat
    /\ Len(bodies) = 2
    /\ bodies[1] = <<>>
    /\ bodies[2] = <<" ">>
    /\ lastCtx # EmptyCtx
    /\ lastResult = Ok(<<"a">>)

\* ------------------------------------------------------ literals and context
\* Templates of one directive whose quoted strings and numbers are x, y, p,
\* d and 2, and whose only variable is a.
LiteralSources ==
    { RepeatSource(DQ(<<"x">>), <<"2">>),
      Braces(Glued(<<<<"a">>, <<"?">>, DQ(<<"x">>), <<":">>, DQ(<<"y">>)>>)),
      Braces(SwitchBody(<<DQ(<<"x">>), <<"2">>>>, TRUE)),
      Braces(Spaced(<<DQ(<<"x">>), <<"|">>, <<"2">>, <<"=", ">">>, DQ(<<"y">>),
                      <<"|">>, <<"_">>, <<"=", ">">>, DQ(<<"x">>)>>)) }

LiteralTexts == {<<"x">>, <<"y">>, <<"2">>}

LiteralCtxNames == {<<"a">>} \cup LiteralTexts

LiteralCtxValues == {StrVal(<<"b">>), IntVal(3)}

\* Contexts that bind the variable, texts that the templates write as
\* literals, both or neither.
LiteralContexts == UNION {[S -> LiteralCtxValues] : S \in SUBSET LiteralCtxNames}

InitLiterals ==
    /\ \E s \in LiteralSources : TemplateStart(<<"{", "}">>, s)
    /\ lex = NoLexer
    /\ evalCall = NoCall
    /\ evalResult = NotReturned
    /\ parseCall = NoCall
    /\ parseResult = NotReturned

NextLiterals ==
    \/ ValidateStep
    \/ ValidateEnd
    \/ CheckBalance
    \/ ScanStep
    \/ ScanEnd
    \/ \E ctx \in LiteralContexts : Format(ctx)

SpecLiterals == InitLiterals /\ [][NextLiterals]_vars

\* The context without the entries whose key is the text of a literal.
WithoutLiteralKeys(ctx) == [k \in (DOMAIN ctx) \ LiteralTexts |-> ctx[k]]

\* C28: a literal resolves to its own text whatever the context: the first
\* format of a template returns what it returns under the same context
\* without the entries whose key is the text of one of its literals.
C28_LiteralsIgnoreContext ==
    FirstFormat =>
        lastResult = format_loop(compileResult.val, 1, WithoutLiteralKeys(lastCtx), <<>>, <<>>).res

====
